---- MODULE Spec2Model ----
(***************************************************************************)
(* Model of the dashboard's geography hierarchy resolver                   *)
(* (GeographyMultiSelect.tsx, HierarchicalRegionSelect.tsx) and of the     *)
(* line chart computation (MultiLineChart.tsx, with the filter and the     *)
(* preparers of lib/data-processor as the specification describes them).   *)
(*                                                                         *)
(* Labels are TLA+ strings; a character is a string of length 1.  A value  *)
(* that may be null in the source is a tuple of length 0 (null) or 1.      *)
(***************************************************************************)
EXTENDS Integers, Sequences, FiniteSets, TLC

VARIABLES
    data,               \* the store's dataset: Null or <<dataset>>
    filters,            \* the store's filter criteria
    geographyMemo,      \* GeographyMultiSelect: what its useMemo last returned
    availableSegments,  \* HierarchicalRegionSelect: its availableSegments prop
    regionMemo,         \* HierarchicalRegionSelect: what its useMemo last returned
    chartData,          \* MultiLineChart: what its useMemo last returned
    lastLog,            \* MultiLineChart: the object last given to console.log
    prepared,           \* the points given to extractSeriesFromPreparedData
    extracted,          \* Null, or <<the series it returned>>
    rendered,           \* the components that have rendered
    chartLocals,        \* MultiLineChart: Null, or <<the locals of the memo's
                        \* callback when it last ran with data>>
    matrixKeyPolicy,    \* data-processor: how prepareLineChartData keys a
                        \* matrix-mode record (not given by the sources)
    table,              \* CrossCustomerTable: its state (data, loading, error)
    loads,              \* CrossCustomerTable: where each run of loadData is
    competitiveIntelligenceData,  \* the store's copy of the table's data
    tableControls,      \* CrossCustomerTable: searchTerm, sortColumn,
                        \* sortDirection, selectedRegion,
                        \* selectedOpportunityScore, expandedRow
    locale,             \* the default locale of the runtime that renders the
                        \* table, which localeCompare() uses: its tag, and
                        \* for a locale whose collation rules are not written
                        \* out here the order its collator puts the sheet's
                        \* strings in
    geoSelect,          \* GeographyMultiSelect: isOpen, searchTerm, expandedRegions
    regionSelect,       \* HierarchicalRegionSelect: isOpen, expandedRegions,
                        \* selectedRegion
    onSelectCalled,     \* Null, or <<the segment onSelect was last called with>>
    normalizer,         \* normalizeGeoName: a name, and the results of applying
                        \* the function to it and then to its own result
    objects             \* the identities of the store's data object and of
                        \* the array that is the availableSegments prop (two
                        \* references are the same object exactly if their
                        \* identities are equal), and which of the two has
                        \* been written to in place since it was handed over

vars == <<data, filters, geographyMemo, availableSegments, regionMemo, chartData,
          lastLog, prepared, extracted, rendered, chartLocals, matrixKeyPolicy,
          table, loads, competitiveIntelligenceData, tableControls, locale,
          geoSelect, regionSelect, onSelectCalled, normalizer, objects>>

tableVars == <<table, loads, competitiveIntelligenceData, tableControls, locale>>

selectVars == <<geoSelect, regionSelect, onSelectCalled>>

Null == <<>>

Some(v) == <<v>>

Range(s) == {s[i] : i \in 1..Len(s)}

(***************************************************************************)
(* Strings.                                                                *)
(***************************************************************************)
CharAt(s, i) == SubSeq(s, i, i)

UpperCaseLetters == "ABCDEFGHIJKLMNOPQRSTUVWXYZ"

LowerCaseLetters == "abcdefghijklmnopqrstuvwxyz"

\* The characters String.prototype.trim removes and the class \s matches:
\* the ASCII ones, U+0020, U+0009, U+000A, U+000B (written as the character
\* itself), U+000C and U+000D.  The white space beyond ASCII (U+00A0, U+1680,
\* U+2000 to U+200A, U+2028, U+2029, U+202F, U+205F, U+3000, U+FEFF) is not
\* among the characters of the labels drawn.
WhiteSpace == {" ", "\t", "\n", "", "\f", "\r"}

\* The ASCII part of String.prototype.toLowerCase, one character at a time.
LowerOf ==
    [c \in {CharAt(UpperCaseLetters, i) : i \in 1..Len(UpperCaseLetters)} |->
        CharAt(LowerCaseLetters,
               CHOOSE i \in 1..Len(UpperCaseLetters) : CharAt(UpperCaseLetters, i) = c)]

ToLowerChar(c) == IF c \in DOMAIN LowerOf THEN LowerOf[c] ELSE c

RECURSIVE ToLowerCase(_)
ToLowerCase(s) ==
    IF Len(s) = 0 THEN ""
    ELSE ToLowerChar(CharAt(s, 1)) \o ToLowerCase(Tail(s))

RECURSIVE TrimStart(_)
TrimStart(s) ==
    IF Len(s) > 0 /\ CharAt(s, 1) \in WhiteSpace THEN TrimStart(Tail(s)) ELSE s

RECURSIVE TrimEnd(_)
TrimEnd(s) ==
    IF Len(s) > 0 /\ CharAt(s, Len(s)) \in WhiteSpace
    THEN TrimEnd(SubSeq(s, 1, Len(s) - 1))
    ELSE s

Trim(s) == TrimEnd(TrimStart(s))

\* .replace(/\./g, '')
RECURSIVE StripPeriods(_)
StripPeriods(s) ==
    IF Len(s) = 0 THEN ""
    ELSE IF CharAt(s, 1) = "." THEN StripPeriods(Tail(s))
    ELSE CharAt(s, 1) \o StripPeriods(Tail(s))

\* .replace(/\s+/g, ' '): every maximal run of white space becomes one space.
RECURSIVE CollapseWhiteSpace(_)
CollapseWhiteSpace(s) ==
    IF Len(s) = 0 THEN ""
    ELSE IF CharAt(s, 1) \in WhiteSpace
         THEN " " \o CollapseWhiteSpace(TrimStart(s))
         ELSE CharAt(s, 1) \o CollapseWhiteSpace(Tail(s))

(***************************************************************************)
(* The reference taxonomy.  GEOGRAPHY_HIERARCHY (GeographyMultiSelect) and *)
(* REGION_HIERARCHY (HierarchicalRegionSelect) are two literals in the     *)
(* source; "children: []" and an absent children field are both <<>>.      *)
(***************************************************************************)
Leaf(n) == [name |-> n]

GEOGRAPHY_HIERARCHY ==
    << [name |-> "North America",
        children |-> <<Leaf("U.S."), Leaf("Canada")>>],
       [name |-> "Europe",
        children |-> <<Leaf("U.K."), Leaf("Germany"), Leaf("Italy"),
                       Leaf("France"), Leaf("Spain"), Leaf("Russia")>>],
       [name |-> "Rest of Europe", children |-> <<>>],
       [name |-> "Asia Pacific",
        children |-> <<Leaf("China"), Leaf("India"), Leaf("Japan"),
                       Leaf("South Korea"), Leaf("ASEAN"), Leaf("Australia")>>],
       [name |-> "Rest of Asia Pacific", children |-> <<>>],
       [name |-> "Latin America",
        children |-> <<Leaf("Brazil"), Leaf("Argentina"), Leaf("Mexico")>>],
       [name |-> "Rest of Latin America", children |-> <<>>],
       [name |-> "Middle East",
        children |-> <<Leaf("GCC"), Leaf("Israel")>>],
       [name |-> "Rest of Middle East", children |-> <<>>],
       [name |-> "Africa",
        children |-> <<Leaf("North Africa")>>] >>

\* A plausible drift between the two literals: one copy is edited, and two
\* children change places.
DriftedHierarchy == [GEOGRAPHY_HIERARCHY EXCEPT ![1].children = <<Leaf("Canada"), Leaf("U.S.")>>]

REGION_HIERARCHY ==
    << [name |-> "North America",
        children |-> <<Leaf("U.S."), Leaf("Canada")>>],
       [name |-> "Europe",
        children |-> <<Leaf("U.K."), Leaf("Germany"), Leaf("Italy"),
                       Leaf("France"), Leaf("Spain"), Leaf("Russia")>>],
       [name |-> "Rest of Europe", children |-> <<>>],
       [name |-> "Asia Pacific",
        children |-> <<Leaf("China"), Leaf("India"), Leaf("Japan"),
                       Leaf("South Korea"), Leaf("ASEAN"), Leaf("Australia")>>],
       [name |-> "Rest of Asia Pacific", children |-> <<>>],
       [name |-> "Latin America",
        children |-> <<Leaf("Brazil"), Leaf("Argentina"), Leaf("Mexico")>>],
       [name |-> "Rest of Latin America", children |-> <<>>],
       [name |-> "Middle East",
        children |-> <<Leaf("GCC"), Leaf("Israel")>>],
       [name |-> "Rest of Middle East", children |-> <<>>],
       [name |-> "Africa",
        children |-> <<Leaf("North Africa")>>] >>

(***************************************************************************)
(* normalizeGeoName and findMatchingGeo (the same text in both files).     *)
(***************************************************************************)
\* A plausible slip: the periods are left in.
NormalizeKeepingPeriods(name) == CollapseWhiteSpace(Trim(ToLowerCase(name)))

NormalizeGeoName(name) == CollapseWhiteSpace(StripPeriods(Trim(ToLowerCase(name))))

\* The element of geos at the least index in hits; Null when hits is empty.
AtFirst(geos, hits) ==
    IF hits = {} THEN Null
    ELSE Some(geos[CHOOSE i \in hits : \A j \in hits : i <= j])

AtLast(geos, hits) ==
    IF hits = {} THEN Null
    ELSE Some(geos[CHOOSE i \in hits : \A j \in hits : i >= j])

\* "|| null": a found label that is the empty string is falsy, hence null.
OrNull(found) == IF found # Null /\ found[1] = "" THEN Null ELSE found

\* A plausible slip: the last match instead of the first.
LastMatchingGeo(geoName, geos) ==
    OrNull(AtLast(geos, {i \in 1..Len(geos) :
                            NormalizeGeoName(geos[i]) = NormalizeGeoName(geoName)}))

\* allGeographies.find(geo => normalizeGeoName(geo) === normalized) || null:
\* the first label, in list order, whose normalized form is the name's.
FindMatchingGeo(geoName, geos) ==
    OrNull(AtFirst(geos, {i \in 1..Len(geos) :
                             NormalizeGeoName(geos[i]) = NormalizeGeoName(geoName)}))

(***************************************************************************)
(* buildHierarchy: the callback of template.map, the filter on             *)
(* existsInData, and the set the closure fills (matchedGeos).              *)
(***************************************************************************)
\* One template child: listed under its matched name when a label matches.
ChildEntry(matchedChildName) ==
    IF matchedChildName # Null THEN <<Leaf(matchedChildName[1])>> ELSE <<>>

ChildOrTemplate(child, matchedChildName) ==
    IF matchedChildName # Null THEN Leaf(matchedChildName[1]) ELSE Leaf(child.name)

\* A plausible slip: every template child is listed, matched or not.
ChildrenUnfiltered(region, geos) ==
    [i \in 1..Len(region.children) |->
        ChildOrTemplate(region.children[i],
                        FindMatchingGeo(region.children[i].name, geos))]

\* region.children.forEach from the i-th child on: the matched children,
\* in template order.
RECURSIVE MatchedChildrenFrom(_, _, _)
MatchedChildrenFrom(children, geos, i) ==
    IF i > Len(children) THEN <<>>
    ELSE ChildEntry(FindMatchingGeo(children[i].name, geos))
         \o MatchedChildrenFrom(children, geos, i + 1)

MatchedChildren(region, geos) == MatchedChildrenFrom(region.children, geos, 1)

\* A plausible slip: the region's own match is not put in matchedGeos.
RegionNodeChildrenOnly(region, matchedRegionName, matchedChildren) ==
    [name |-> IF matchedRegionName # Null THEN matchedRegionName[1]
              ELSE region.name,
     children |-> matchedChildren,
     existsInData |-> matchedRegionName # Null \/ Len(matchedChildren) > 0,
     added |-> {matchedChildren[i].name : i \in 1..Len(matchedChildren)}]

\* The object the map callback returns, with the labels it has put in
\* matchedGeos (added).
RegionNode(region, matchedRegionName, matchedChildren) ==
    [name |-> IF matchedRegionName # Null THEN matchedRegionName[1]
              ELSE region.name,
     children |-> matchedChildren,
     existsInData |-> matchedRegionName # Null \/ Len(matchedChildren) > 0,
     added |-> {matchedChildren[i].name : i \in 1..Len(matchedChildren)}
               \cup (IF matchedRegionName # Null THEN {matchedRegionName[1]}
                     ELSE {})]

MatchRegion(region, geos) ==
    RegionNode(region, FindMatchingGeo(region.name, geos), MatchedChildren(region, geos))

Node(m) == [name |-> m.name, children |-> m.children, existsInData |-> m.existsInData]

\* template.map(region => ...)
MapRegions(template, geos) ==
    [i \in 1..Len(template) |-> MatchRegion(template[i], geos)]

\* .filter(region => region.existsInData), from the i-th mapped region on.
RECURSIVE Retained(_, _)
Retained(mapped, i) ==
    IF i > Len(mapped) THEN <<>>
    ELSE IF mapped[i].existsInData THEN <<Node(mapped[i])>> \o Retained(mapped, i + 1)
    ELSE Retained(mapped, i + 1)

\* What the calls of matchedGeos.add have put in the set when map returns.
MatchedGeos(mapped) == UNION {mapped[i].added : i \in 1..Len(mapped)}

\* A plausible slip: the filter on existsInData is missing.
KeepAll(mapped) ==
    [hierarchy |-> [i \in 1..Len(mapped) |-> Node(mapped[i])],
     matched |-> MatchedGeos(mapped)]

FilterExisting(mapped) ==
    [hierarchy |-> Retained(mapped, 1), matched |-> MatchedGeos(mapped)]

BuildHierarchy(template, geos) == FilterExisting(MapRegions(template, geos))

\* A plausible slip: the bucket is filled by prepending.
RECURSIVE UnmatchedReversedFrom(_, _, _)
UnmatchedReversedFrom(geos, matched, i) ==
    IF i = 0 THEN <<>>
    ELSE IF geos[i] \notin matched
         THEN <<geos[i]>> \o UnmatchedReversedFrom(geos, matched, i - 1)
         ELSE UnmatchedReversedFrom(geos, matched, i - 1)

UnmatchedReversed(geos, matched) == UnmatchedReversedFrom(geos, matched, Len(geos))

\* A plausible slip: a label is dropped when its normalized form is that of
\* a matched label.
RECURSIVE UnmatchedByNormalFormFrom(_, _, _)
UnmatchedByNormalFormFrom(geos, matched, i) ==
    IF i > Len(geos) THEN <<>>
    ELSE IF \A m \in matched : NormalizeGeoName(m) # NormalizeGeoName(geos[i])
         THEN <<geos[i]>> \o UnmatchedByNormalFormFrom(geos, matched, i + 1)
         ELSE UnmatchedByNormalFormFrom(geos, matched, i + 1)

UnmatchedByNormalForm(geos, matched) == UnmatchedByNormalFormFrom(geos, matched, 1)

\* allGeos.filter(geo => !matchedGeos.has(geo)), from the i-th label on.
RECURSIVE UnmatchedFrom(_, _, _)
UnmatchedFrom(geos, matched, i) ==
    IF i > Len(geos) THEN <<>>
    ELSE IF geos[i] \notin matched
         THEN <<geos[i]>> \o UnmatchedFrom(geos, matched, i + 1)
         ELSE UnmatchedFrom(geos, matched, i + 1)

Unmatched(geos, matched) == UnmatchedFrom(geos, matched, 1)

EmptyGeographyMemo ==
    [hierarchicalGeographies |-> <<>>, unmatchedGeographies |-> <<>>,
     allGeographies |-> <<>>, matchedGeos |-> {}]

GeographyResult(allGeos, built) ==
    [hierarchicalGeographies |-> built.hierarchy,
     unmatchedGeographies |-> Unmatched(allGeos, built.matched),
     allGeographies |-> allGeos,
     matchedGeos |-> built.matched]

\* The useMemo of GeographyMultiSelect, over the store's data.
GeographyMemo(d) ==
    IF d = Null THEN EmptyGeographyMemo
    ELSE GeographyResult(d[1].all_geographies,
                         BuildHierarchy(GEOGRAPHY_HIERARCHY, d[1].all_geographies))

EmptyRegionMemo ==
    [hierarchicalRegions |-> <<>>, unmatchedRegions |-> <<>>, matchedGeos |-> {}]

RegionResult(segments, built) ==
    [hierarchicalRegions |-> built.hierarchy,
     unmatchedRegions |-> Unmatched(segments, built.matched),
     matchedGeos |-> built.matched]

\* The useMemo of HierarchicalRegionSelect, over its availableSegments prop.
RegionMemo(segments) ==
    IF Len(segments) = 0 THEN EmptyRegionMemo
    ELSE RegionResult(segments, BuildHierarchy(REGION_HIERARCHY, segments))

(***************************************************************************)
(* The state of the components the label resolver does not touch, as it   *)
(* is after construction.                                                  *)
(***************************************************************************)
MaxLoads == 2

\* CrossCustomerTable before its effect runs: useState(null), useState(true),
\* useState(null), and the initial values of its controls.
InitTable ==
    /\ table = [data |-> Null, loading |-> TRUE, error |-> Null]
    /\ loads = [i \in 1..MaxLoads |-> "idle"]
    /\ competitiveIntelligenceData = Null
    /\ tableControls = [searchTerm |-> "", sortColumn |-> Null, sortDirection |-> "asc", selectedRegion |-> "all", selectedOpportunityScore |-> "all", expandedRow |-> Null]
    /\ locale = [tag |-> "en-US", order |-> <<>>]

\* The objects a session starts with: none has been written to in place.
FirstObjects == [data |-> 1, availableSegments |-> 1, written |-> {}]

\* The selectors' own state before any interaction; normalizeGeoName not
\* yet applied.
InitSelectors ==
    /\ geoSelect = [isOpen |-> FALSE, searchTerm |-> "", expandedRegions |-> {}]
    /\ regionSelect = [isOpen |-> FALSE, expandedRegions |-> {}, selectedRegion |-> ""]
    /\ onSelectCalled = Null
    /\ normalizer = [name |-> "", results |-> <<>>]
    /\ objects = FirstObjects

(***************************************************************************)
(* The resolver's specification: a label list is drawn, handed to one of   *)
(* the two selectors, and each selector's render computes its memo.        *)
(***************************************************************************)
chartVars ==
    <<filters, chartData, lastLog, prepared, extracted, chartLocals, matrixKeyPolicy>>

\* The store's filters before any interaction.
DefaultFilters ==
    [dataType |-> "value", viewMode |-> "segment-mode", segmentType |-> "By Type",
     geographies |-> <<>>, segments |-> <<>>, advancedSegments |-> <<>>,
     aggregationLevel |-> Null, yearRange |-> <<2020, 2021>>]

\* if (!data) return { data: [], series: [] }
EmptyChart == [data |-> <<>>, series |-> <<>>]

MaxLabels == 2

LabelPool ==
    {"U.S.", "US", "u.s.", "united   states", "Canada", " North  America",
     "north\tafrica", "Rest of Europe", "Mars"}

LabelLists == UNION {[1..n -> LabelPool] : n \in 0..MaxLabels}

Dataset(geos, value, volume) ==
    [all_geographies |-> geos, value |-> value, volume |-> volume]

InitResolver ==
    /\ \E l \in LabelLists :
          \/ data = Null /\ availableSegments = l
          \/ data = Some(Dataset(l, <<>>, <<>>)) /\ availableSegments = <<>>
    /\ geographyMemo = EmptyGeographyMemo
    /\ regionMemo = EmptyRegionMemo
    /\ rendered = {}
    /\ filters = DefaultFilters
    /\ chartData = EmptyChart
    /\ lastLog = Null
    /\ prepared = <<>>
    /\ extracted = Null
    /\ chartLocals = Null
    /\ matrixKeyPolicy = "raw"
    /\ InitTable
    /\ InitSelectors

RenderGeographyMultiSelect ==
    /\ "GeographyMultiSelect" \notin rendered
    /\ geographyMemo' = GeographyMemo(data)
    /\ rendered' = rendered \cup {"GeographyMultiSelect"}
    /\ UNCHANGED <<data, availableSegments, regionMemo>>
    /\ UNCHANGED chartVars
    /\ UNCHANGED <<tableVars, selectVars, normalizer, objects>>

RenderHierarchicalRegionSelect ==
    /\ "HierarchicalRegionSelect" \notin rendered
    /\ regionMemo' = RegionMemo(availableSegments)
    /\ rendered' = rendered \cup {"HierarchicalRegionSelect"}
    /\ UNCHANGED <<data, availableSegments, geographyMemo>>
    /\ UNCHANGED chartVars
    /\ UNCHANGED <<tableVars, selectVars, normalizer, objects>>

NextResolver == RenderGeographyMultiSelect \/ RenderHierarchicalRegionSelect

SpecResolver == InitResolver /\ [][NextResolver]_vars

(***************************************************************************)
(* Properties of the resolver.                                             *)
(***************************************************************************)
GeographyRendered == "GeographyMultiSelect" \in rendered

RegionRendered == "HierarchicalRegionSelect" \in rendered

\* The labels supplied to GeographyMultiSelect's resolver.
DataGeos == IF data = Null THEN <<>> ELSE data[1].all_geographies

\* Every name shown in a tree: region names and child names.
TreeNames(tree) ==
    {tree[k].name : k \in 1..Len(tree)}
    \cup UNION {{tree[k].children[c].name : c \in 1..Len(tree[k].children)} :
                  k \in 1..Len(tree)}

ChildNames(node) == [c \in 1..Len(node.children) |-> node.children[c].name]

\* The supplied labels a tree holds, in display order: a region's name when
\* it is a supplied label (not a template placeholder), then its children.
RECURSIVE TreeLabelsFrom(_, _, _)
TreeLabelsFrom(tree, geos, k) ==
    IF k > Len(tree) THEN <<>>
    ELSE (IF tree[k].name \in Range(geos) THEN <<tree[k].name>> ELSE <<>>)
         \o ChildNames(tree[k]) \o TreeLabelsFrom(tree, geos, k + 1)

TreeLabels(tree, geos) == TreeLabelsFrom(tree, geos, 1)

NoDuplicates(s) == \A i, j \in 1..Len(s) : i # j => s[i] # s[j]

SameNormalForm(a, b) == NormalizeGeoName(a) = NormalizeGeoName(b)

HasMatch(name, geos) == \E i \in 1..Len(geos) : SameNormalForm(geos[i], name)

\* The first label, in list order, whose normalized form is the name's.
FirstLabel(name, geos) ==
    geos[CHOOSE i \in 1..Len(geos) :
            /\ SameNormalForm(geos[i], name)
            /\ \A j \in 1..(i - 1) : ~SameNormalForm(geos[j], name)]

TemplateNames(template) ==
    {template[r].name : r \in 1..Len(template)}
    \cup UNION {{template[r].children[c].name : c \in 1..Len(template[r].children)} :
                  r \in 1..Len(template)}

\* C1, for one selector: each supplied label is in the tree or in the
\* unmatched bucket, and not in both.
Partitioned(geos, tree, unmatched) ==
    \A l \in Range(geos) : (l \in TreeNames(tree)) # (l \in Range(unmatched))

\* C1: every label supplied to the hierarchy resolver is in exactly one of
\* the output tree (as a region's canonical name or as a matched child) and
\* the unmatched bucket, in both selectors.
C1_LabelInExactlyOne ==
    /\ GeographyRendered =>
          Partitioned(DataGeos, geographyMemo.hierarchicalGeographies,
                      geographyMemo.unmatchedGeographies)
    /\ RegionRendered =>
          Partitioned(availableSegments, regionMemo.hierarchicalRegions,
                      regionMemo.unmatchedRegions)

\* A list with a label in the tree and another in the bucket has been resolved.
C1_Witness ==
    /\ GeographyRendered
    /\ DataGeos = <<"Mars", "US">>
    /\ "US" \in TreeNames(geographyMemo.hierarchicalGeographies)
    /\ geographyMemo.unmatchedGeographies = <<"Mars">>

\* C2, for one selector: as many labels come out as went in, none twice.
CountPreserved(geos, tree, unmatched) ==
    /\ Len(TreeLabels(tree, geos)) + Len(unmatched) = Len(geos)
    /\ NoDuplicates(TreeLabels(tree, geos) \o unmatched)

\* C2 as stated: for any label list, also one that repeats a label, the
\* labels in the tree plus the labels in the unmatched bucket are as many as
\* the input list holds, and none occurs twice.
C2_CountForAnyList ==
    /\ GeographyRendered =>
          CountPreserved(DataGeos, geographyMemo.hierarchicalGeographies,
                         geographyMemo.unmatchedGeographies)
    /\ RegionRendered =>
          CountPreserved(availableSegments, regionMemo.hierarchicalRegions,
                         regionMemo.unmatchedRegions)

\* C2 amended: for any label list that repeats no label (it may hold several
\* labels with the same normalized form), the labels in the tree plus the
\* labels in the unmatched bucket are as many as the input list holds, and
\* none occurs twice.
C2_CountForDistinctLabels ==
    /\ (GeographyRendered /\ NoDuplicates(DataGeos)) =>
          CountPreserved(DataGeos, geographyMemo.hierarchicalGeographies,
                         geographyMemo.unmatchedGeographies)
    /\ (RegionRendered /\ NoDuplicates(availableSegments)) =>
          CountPreserved(availableSegments, regionMemo.hierarchicalRegions,
                         regionMemo.unmatchedRegions)

\* Two distinct labels with one normalized form have been resolved: the
\* first is in the tree, the second in the bucket.
C2_Witness ==
    /\ RegionRendered
    /\ availableSegments = <<"u.s.", "US">>
    /\ TreeLabels(regionMemo.hierarchicalRegions, availableSegments) = <<"u.s.">>
    /\ regionMemo.unmatchedRegions = <<"US">>

UsVariants == {"U.S.", "US", "u.s."}

\* C3, for one selector's label list.
MatchesByNormalForm(template, geos, matched, unmatched) ==
    /\ \A t \in TemplateNames(template) :
          /\ FindMatchingGeo(t, geos) # Null <=> HasMatch(t, geos)
          /\ \A i \in 1..Len(geos) :
                FindMatchingGeo(t, <<geos[i]>>) = Some(geos[i])
                    <=> SameNormalForm(geos[i], t)
    /\ \A l \in UsVariants \cap Range(geos) :
          /\ FindMatchingGeo("U.S.", <<l>>) = Some(l)
          /\ FindMatchingGeo("U.S.", geos) # Null
          /\ FindMatchingGeo("U.S.", geos)[1] \in UsVariants \cap matched
    /\ "united   states" \in Range(geos) =>
          /\ FindMatchingGeo("U.S.", <<"united   states">>) = Null
          /\ "united   states" \in Range(unmatched)

\* C3: findMatchingGeo matches a label to a template name exactly when their
\* normalized forms are equal: "U.S.", "US" and "u.s." match the template
\* "U.S.", and "united   states" does not.
C3_MatchIffNormalFormsEqual ==
    /\ GeographyRendered =>
          MatchesByNormalForm(GEOGRAPHY_HIERARCHY, DataGeos,
                              geographyMemo.matchedGeos,
                              geographyMemo.unmatchedGeographies)
    /\ RegionRendered =>
          MatchesByNormalForm(REGION_HIERARCHY, availableSegments,
                              regionMemo.matchedGeos, regionMemo.unmatchedRegions)

\* "US" has matched the template "U.S." and "united   states" has not.
C3_Witness ==
    /\ GeographyRendered
    /\ DataGeos = <<"united   states", "US">>
    /\ geographyMemo.matchedGeos = {"US"}
    /\ geographyMemo.unmatchedGeographies = <<"united   states">>

\* The name C4 expects a template node to be shown under.
DisplayedName(name, geos) ==
    IF HasMatch(name, geos) THEN FirstLabel(name, geos) ELSE name

\* C4, for one node of the output and the template node it stands for.
ShownUnderFirstMatch(node, region, geos) ==
    /\ node.name = DisplayedName(region.name, geos)
    /\ \A c \in 1..Len(node.children) :
          \E tc \in 1..Len(region.children) :
             /\ HasMatch(region.children[tc].name, geos)
             /\ node.children[c].name = FirstLabel(region.children[tc].name, geos)
    /\ \A tc \in 1..Len(region.children) :
          HasMatch(region.children[tc].name, geos) =>
             \E c \in 1..Len(node.children) :
                node.children[c].name = FirstLabel(region.children[tc].name, geos)

\* C4, for one selector: every node of the tree stands for a template
\* region and is shown under the name C4 gives.
FirstMatchDisplayed(template, geos, tree) ==
    \A k \in 1..Len(tree) :
       \E r \in 1..Len(template) :
          /\ SameNormalForm(template[r].name, tree[k].name)
          /\ ShownUnderFirstMatch(tree[k], template[r], geos)

\* C4: a template node is displayed under the first label of the list, in
\* list order, whose normalized form is the node's; a region that no label
\* matches keeps its template name.
C4_FirstMatchIsDisplayed ==
    /\ GeographyRendered =>
          FirstMatchDisplayed(GEOGRAPHY_HIERARCHY, DataGeos,
                              geographyMemo.hierarchicalGeographies)
    /\ RegionRendered =>
          FirstMatchDisplayed(REGION_HIERARCHY, availableSegments,
                              regionMemo.hierarchicalRegions)

\* Of two labels for the template child "U.S." the first is displayed, under
\* a region that keeps its template name.
C4_Witness ==
    /\ GeographyRendered
    /\ DataGeos = <<"US", "U.S.">>
    /\ Len(geographyMemo.hierarchicalGeographies) = 1
    /\ geographyMemo.hierarchicalGeographies[1].name = "North America"
    /\ ChildNames(geographyMemo.hierarchicalGeographies[1]) = <<"US">>

\* The regions of a tree that stand for a template region.
NodesFor(region, tree) ==
    {k \in 1..Len(tree) : SameNormalForm(tree[k].name, region.name)}

\* C5, for one selector.
RetainedIffMatched(template, geos, tree) ==
    /\ \A r \in 1..Len(template) :
          NodesFor(template[r], tree) # {}
             <=> \/ HasMatch(template[r].name, geos)
                 \/ \E tc \in 1..Len(template[r].children) :
                       HasMatch(template[r].children[tc].name, geos)
    /\ \A r \in 1..Len(template) : \A k \in NodesFor(template[r], tree) :
          \A c \in 1..Len(tree[k].children) :
             /\ tree[k].children[c].name \in Range(geos)
             /\ \E tc \in 1..Len(template[r].children) :
                   SameNormalForm(template[r].children[tc].name,
                                  tree[k].children[c].name)

\* C5: a template region is in the output tree exactly when its own name or
\* one of its template children matches a label, and every child listed
\* under a region of the tree is a matched label.
C5_RetainedIffSelfOrChildMatches ==
    /\ GeographyRendered =>
          RetainedIffMatched(GEOGRAPHY_HIERARCHY, DataGeos,
                             geographyMemo.hierarchicalGeographies)
    /\ RegionRendered =>
          RetainedIffMatched(REGION_HIERARCHY, availableSegments,
                             regionMemo.hierarchicalRegions)

\* One region is retained for its own match, one for a child's, and the
\* other eight template regions are pruned.
C5_Witness ==
    /\ RegionRendered
    /\ availableSegments = <<"Rest of Europe", "north\tafrica">>
    /\ Len(regionMemo.hierarchicalRegions) = 2
    /\ regionMemo.hierarchicalRegions[1].name = "Rest of Europe"
    /\ regionMemo.hierarchicalRegions[2].name = "Africa"
    /\ ChildNames(regionMemo.hierarchicalRegions[2]) = <<"north\tafrica">>

\* The positions of the list whose label is not in the matched set.
KeptPositions(geos, matched) == {i \in 1..Len(geos) : geos[i] \notin matched}

\* C6, for one selector: the k-th label of the bucket is the label at the
\* k-th kept position of the list.
BucketIsSubsequence(geos, matched, unmatched) ==
    /\ Len(unmatched) = Cardinality(KeptPositions(geos, matched))
    /\ \A i \in KeptPositions(geos, matched) :
          unmatched[Cardinality({j \in KeptPositions(geos, matched) : j <= i})]
             = geos[i]

\* C6: the unmatched bucket is the subsequence of the label list made of the
\* labels that were not added to the matched set, in their original order.
C6_UnmatchedKeepsListOrder ==
    /\ GeographyRendered =>
          BucketIsSubsequence(DataGeos, geographyMemo.matchedGeos,
                              geographyMemo.unmatchedGeographies)
    /\ RegionRendered =>
          BucketIsSubsequence(availableSegments, regionMemo.matchedGeos,
                              regionMemo.unmatchedRegions)

\* Two unmatched labels are in the bucket in list order.
C6_Witness ==
    /\ GeographyRendered
    /\ DataGeos = <<"united   states", "Mars">>
    /\ geographyMemo.matchedGeos = {}
    /\ geographyMemo.unmatchedGeographies = <<"united   states", "Mars">>

(***************************************************************************)
(* Prepared points and extractSeriesFromPreparedData (MultiLineChart).     *)
(* A point is the object's properties in creation order: a sequence of     *)
(* [key, value] entries with distinct keys.                                *)
(***************************************************************************)
Entry(k, v) == [key |-> k, value |-> v]

DecimalDigits == "0123456789"

IsDigit(c) == \E d \in 1..Len(DecimalDigits) : CharAt(DecimalDigits, d) = c

DigitValue(c) == (CHOOSE d \in 1..Len(DecimalDigits) : CharAt(DecimalDigits, d) = c) - 1

\* Numeric order of two canonical decimal keys (no leading zero): the
\* shorter is the smaller, and keys of one length compare digit by digit.
IndexBefore(a, b) ==
    \/ Len(a) < Len(b)
    \/ /\ Len(a) = Len(b)
       /\ \E i \in 1..Len(a) :
             /\ SubSeq(a, 1, i - 1) = SubSeq(b, 1, i - 1)
             /\ DigitValue(CharAt(a, i)) < DigitValue(CharAt(b, i))

\* The greatest integer index, 2^32 - 2.
MaxArrayIndex == "4294967294"

\* An integer-index property key: the canonical decimal form (no leading
\* zero) of an integer in 0 .. 2^32 - 2.
IsArrayIndex(k) ==
    /\ Len(k) \in 1..Len(MaxArrayIndex)
    /\ \A i \in 1..Len(k) : IsDigit(CharAt(k, i))
    /\ Len(k) > 1 => CharAt(k, 1) # "0"
    /\ ~IndexBefore(MaxArrayIndex, k)

\* The integer-index keys of a point above the key low (all of them when
\* low is Null).
IndexKeysOver(point, low) ==
    {k \in {point[i].key : i \in 1..Len(point)} :
        IsArrayIndex(k) /\ (low = Null \/ IndexBefore(low[1], k))}

\* The integer-index keys of a point above low, least first.
RECURSIVE IndexKeysAbove(_, _)
IndexKeysAbove(point, low) ==
    IF IndexKeysOver(point, low) = {} THEN <<>>
    ELSE <<(CHOOSE k \in IndexKeysOver(point, low) :
               \A m \in IndexKeysOver(point, low) : ~IndexBefore(m, k))>>
         \o IndexKeysAbove(point,
               Some(CHOOSE k \in IndexKeysOver(point, low) :
                       \A m \in IndexKeysOver(point, low) : ~IndexBefore(m, k)))

\* The other keys of a point, in creation order, from the i-th entry on.
RECURSIVE NamedKeysFrom(_, _)
NamedKeysFrom(point, i) ==
    IF i > Len(point) THEN <<>>
    ELSE (IF IsArrayIndex(point[i].key) THEN <<>> ELSE <<point[i].key>>)
         \o NamedKeysFrom(point, i + 1)

\* Object.keys(dataPoint): integer-index keys in ascending numeric order,
\* then the other keys in creation order.
ObjectKeys(point) == IndexKeysAbove(point, Null) \o NamedKeysFrom(point, 1)

\* allKeys.add(key) for the keys of one point, from the i-th key on; allKeys
\* is the Set in insertion order.
RECURSIVE AddKeys(_, _, _)
AddKeys(allKeys, keys, i) ==
    IF i > Len(keys) THEN allKeys
    ELSE IF keys[i] # "year" /\ keys[i] \notin Range(allKeys)
         THEN AddKeys(Append(allKeys, keys[i]), keys, i + 1)
         ELSE AddKeys(allKeys, keys, i + 1)

\* prepared.forEach(dataPoint => ...), from the p-th point on.
RECURSIVE CollectKeys(_, _, _)
CollectKeys(allKeys, points, p) ==
    IF p > Len(points) THEN allKeys
    ELSE CollectKeys(AddKeys(allKeys, ObjectKeys(points[p]), 1), points, p + 1)

\* A plausible slip: 'year' is not left out.
RECURSIVE AddKeysWithYear(_, _, _)
AddKeysWithYear(allKeys, keys, i) ==
    IF i > Len(keys) THEN allKeys
    ELSE IF keys[i] \notin Range(allKeys)
         THEN AddKeysWithYear(Append(allKeys, keys[i]), keys, i + 1)
         ELSE AddKeysWithYear(allKeys, keys, i + 1)

RECURSIVE CollectKeysWithYear(_, _, _)
CollectKeysWithYear(allKeys, points, p) ==
    IF p > Len(points) THEN allKeys
    ELSE CollectKeysWithYear(AddKeysWithYear(allKeys, ObjectKeys(points[p]), 1),
                             points, p + 1)

ExtractSeriesWithYear(points) ==
    IF Len(points) = 0 THEN <<>> ELSE CollectKeysWithYear(<<>>, points, 1)

\* extractSeriesFromPreparedData, given the closure's prepared.
ExtractSeriesFromPreparedData(points) ==
    IF Len(points) = 0 THEN <<>> ELSE CollectKeys(<<>>, points, 1)

(***************************************************************************)
(* The extractor's specification: a sequence of points is drawn and the    *)
(* extractor is applied to it.                                             *)
(***************************************************************************)
MaxPoints == 2

SeriesKeyPool == {"Tablets", "Capsules", "7", "10", "4294967294", "4294967295"}

\* The series keys of one point, in creation order: up to two distinct keys.
SeriesKeyLists ==
    {<<>>} \cup {<<k>> : k \in SeriesKeyPool}
    \cup {s \in SeriesKeyPool \X SeriesKeyPool : s[1] # s[2]}

\* A point as the preparers build it: year first, then the series keys.
PointOf(keys) ==
    <<Entry("year", 2020)>> \o [i \in 1..Len(keys) |-> Entry(keys[i], i)]

PointPool == {PointOf(keys) : keys \in SeriesKeyLists}

InitExtract ==
    /\ prepared \in UNION {[1..n -> PointPool] : n \in 0..MaxPoints}
    /\ extracted = Null
    /\ data = Null
    /\ filters = DefaultFilters
    /\ geographyMemo = EmptyGeographyMemo
    /\ availableSegments = <<>>
    /\ regionMemo = EmptyRegionMemo
    /\ chartData = EmptyChart
    /\ lastLog = Null
    /\ rendered = {}
    /\ chartLocals = Null
    /\ matrixKeyPolicy = "raw"
    /\ InitTable
    /\ InitSelectors

ExtractSeries ==
    /\ extracted = Null
    /\ extracted' = Some(ExtractSeriesFromPreparedData(prepared))
    /\ UNCHANGED <<data, filters, geographyMemo, availableSegments, regionMemo,
                   chartData, lastLog, prepared, rendered, chartLocals,
                   matrixKeyPolicy>>
    /\ UNCHANGED <<tableVars, selectVars, normalizer, objects>>

NextExtract == ExtractSeries

SpecExtract == InitExtract /\ [][NextExtract]_vars

(***************************************************************************)
(* Properties of the extractor.                                            *)
(***************************************************************************)
PointKeys(point) == {point[i].key : i \in 1..Len(point)}

NonYearKeys(points) == UNION {PointKeys(points[p]) : p \in 1..Len(points)} \ {"year"}

\* The first point that holds the key, and the key's place in creation order.
FirstPoint(k, points) ==
    CHOOSE p \in 1..Len(points) :
       /\ k \in PointKeys(points[p])
       /\ \A q \in 1..(p - 1) : k \notin PointKeys(points[q])

CreationPlace(k, point) == CHOOSE i \in 1..Len(point) : point[i].key = k

CreatedBefore(a, b, point) == CreationPlace(a, point) < CreationPlace(b, point)

\* The order in which Object.keys lists two keys of one point.
EnumeratedBefore(a, b, point) ==
    \/ IsArrayIndex(a) /\ IsArrayIndex(b) /\ IndexBefore(a, b)
    \/ IsArrayIndex(a) /\ ~IsArrayIndex(b)
    \/ ~IsArrayIndex(a) /\ ~IsArrayIndex(b) /\ CreatedBefore(a, b, point)

EachKeyOnce(series, points) ==
    /\ NoDuplicates(series)
    /\ Range(series) = NonYearKeys(points)

\* C7: the extractor returns the distinct non-year keys of the
\* points, each once, ordered by where each is first seen when the points
\* are scanned in sequence and each point's keys in insertion order.
C7_FirstSeenInInsertionOrder ==
    extracted # Null =>
       /\ EachKeyOnce(extracted[1], prepared)
       /\ \A i, j \in 1..Len(extracted[1]) :
             i < j =>
                \/ FirstPoint(extracted[1][i], prepared)
                      < FirstPoint(extracted[1][j], prepared)
                \/ /\ FirstPoint(extracted[1][i], prepared)
                         = FirstPoint(extracted[1][j], prepared)
                   /\ CreatedBefore(extracted[1][i], extracted[1][j],
                                    prepared[FirstPoint(extracted[1][i], prepared)])

\* What the code returns: the distinct non-year keys of the points, each
\* once, ordered by where each is first seen when the points are scanned in
\* sequence and each point's keys in the order of Object.keys (integer-index
\* keys in ascending numeric order, then the other keys in insertion order).
FirstSeenInEnumerationOrder ==
    extracted # Null =>
       /\ EachKeyOnce(extracted[1], prepared)
       /\ \A i, j \in 1..Len(extracted[1]) :
             i < j =>
                \/ FirstPoint(extracted[1][i], prepared)
                      < FirstPoint(extracted[1][j], prepared)
                \/ /\ FirstPoint(extracted[1][i], prepared)
                         = FirstPoint(extracted[1][j], prepared)
                   /\ EnumeratedBefore(extracted[1][i], extracted[1][j],
                                       prepared[FirstPoint(extracted[1][i], prepared)])

\* Two points with an integer-index key each have been scanned.
IndexKeysScanned ==
    /\ prepared = <<PointOf(<<"Tablets", "7">>), PointOf(<<"10", "Tablets">>)>>
    /\ extracted = Some(<<"7", "Tablets", "10">>)

(***************************************************************************)
(* lib/data-processor, as the specification describes it (4.2 - 4.4).      *)
(***************************************************************************)
MarketRecord(y, g, s, t, v) ==
    [year |-> y, geography |-> g, segment |-> s, segmentType |-> t, value |-> v]

\* SegmentRollupResolver (4.2).  The taxonomy: the leaves are level 3, their
\* parents level 2.  'Tablets' rolls up to 'Solid Dosage' (scenario 2).
SegmentTaxonomy ==
    <<[leaf |-> "Tablets", parent |-> "Solid Dosage"],
      [leaf |-> "Capsules", parent |-> "Solid Dosage"],
      [leaf |-> "Intravenous", parent |-> "Parenteral"],
      [leaf |-> "Intramuscular", parent |-> "Parenteral"]>>

IsLeaf(label) == \E t \in 1..Len(SegmentTaxonomy) : SegmentTaxonomy[t].leaf = label

ParentOf(label) ==
    SegmentTaxonomy[CHOOSE t \in 1..Len(SegmentTaxonomy) :
                       SegmentTaxonomy[t].leaf = label].parent

\* The ancestor at the level, or the label itself when it is at the level or
\* coarser, or outside the taxonomy.
SegmentRollup(label, level) ==
    IF level < 3 /\ IsLeaf(label) THEN ParentOf(label) ELSE label

\* MatrixFilter (4.3): the inclusion predicate.
\* A plausible slip: the end of the range is left out.
InYearRangeExclusiveEnd(year, yearRange) == yearRange[1] <= year /\ year < yearRange[2]

InYearRange(year, yearRange) == yearRange[1] <= year /\ year <= yearRange[2]

Included(record, criteria) ==
    /\ InYearRange(record.year, criteria.yearRange)
    /\ (Len(criteria.geographies) = 0 \/ record.geography \in Range(criteria.geographies))
    /\ (Len(criteria.segments) = 0 \/ record.segment \in Range(criteria.segments))
    /\ record.segmentType = criteria.segmentType

\* filterData: the records that pass, in their original order.  The
\* predicate is that of the specification (4.3), which names these four
\* tests and no other.  The criteria the chart hands over also carry
\* advancedSegments and, in geography-mode with no geography selected, the
\* flag _geographyModeRegionView; what filterData does with the two is given
\* neither by the sources nor by the specification, and this filter reads
\* neither.
FilterData(dataset, criteria) ==
    SelectSeq(dataset, LAMBDA record : Included(record, criteria))

\* The distinct keys in the order of their first appearance.
RECURSIVE DistinctFrom(_, _, _)
DistinctFrom(seen, keys, i) ==
    IF i > Len(keys) THEN seen
    ELSE IF keys[i] \in Range(seen) THEN DistinctFrom(seen, keys, i + 1)
    ELSE DistinctFrom(Append(seen, keys[i]), keys, i + 1)

FirstAppearance(keys) == DistinctFrom(<<>>, keys, 1)

Least(years) == CHOOSE y \in years : \A z \in years : y <= z

RECURSIVE AscendingFrom(_, _)
AscendingFrom(years, least) ==
    IF years = {least} THEN <<least>>
    ELSE <<least>> \o AscendingFrom(years \ {least}, Least(years \ {least}))

Ascending(years) == IF years = {} THEN <<>> ELSE AscendingFrom(years, Least(years))

\* The sum of the values of the records of a (year, key) group.
RECURSIVE SumFrom(_, _, _, _, _)
SumFrom(records, keys, year, key, i) ==
    IF i > Len(records) THEN 0
    ELSE IF records[i].year = year /\ keys[i] = key
         THEN records[i].value + SumFrom(records, keys, year, key, i + 1)
         ELSE SumFrom(records, keys, year, key, i + 1)

Contributes(records, keys, year, key) ==
    \E i \in 1..Len(records) : records[i].year = year /\ keys[i] = key

\* A plausible slip: a key without a record in the year is given the value 0.
RECURSIVE PointEntriesWithZeros(_, _, _, _, _)
PointEntriesWithZeros(records, keys, year, order, j) ==
    IF j > Len(order) THEN <<>>
    ELSE <<[key |-> order[j], value |-> SumFrom(records, keys, year, order[j], 1)]>>
         \o PointEntriesWithZeros(records, keys, year, order, j + 1)

\* The series keys of one year's point, from the j-th key on: a key is
\* present only if a record contributes to it in the year.
RECURSIVE PointEntries(_, _, _, _, _)
PointEntries(records, keys, year, order, j) ==
    IF j > Len(order) THEN <<>>
    ELSE IF Contributes(records, keys, year, order[j])
         THEN <<[key |-> order[j], value |-> SumFrom(records, keys, year, order[j], 1)]>>
              \o PointEntries(records, keys, year, order, j + 1)
         ELSE PointEntries(records, keys, year, order, j + 1)

PointFor(records, keys, year, order) ==
    <<[key |-> "year", value |-> year]>> \o PointEntries(records, keys, year, order, 1)

PointsFor(records, keys, years, order) ==
    [p \in 1..Len(years) |-> PointFor(records, keys, years[p], order)]

\* Group by (year, key) and sum: the points ascending by year, the keys of a
\* point in the order of their first appearance in the filtered sequence.
GroupByYearAndKey(records, keys) ==
    PointsFor(records, keys,
              Ascending({records[i].year : i \in 1..Len(records)}),
              FirstAppearance(keys))

CompositeKey(geography, segment) == geography \o "::" \o segment

\* The level of the criteria, for a rollup: no level leaves the label alone.
RollupAt(label, aggregationLevel) ==
    IF aggregationLevel = Null THEN label
    ELSE SegmentRollup(label, aggregationLevel[1])

\* The key of a record under the level-aggregated strategy (4.4 a).  Records
\* of the region view carry the region as their geography label.  For the
\* matrix view the specification names no key: the policy says whether the
\* segment of the composite key is rolled up.
RollupKey(record, criteria, policy) ==
    IF criteria.viewMode = "geography-mode" THEN record.geography
    ELSE IF criteria.viewMode = "segment-mode"
    THEN RollupAt(record.segment, criteria.aggregationLevel)
    ELSE IF policy = "rolled"
    THEN CompositeKey(record.geography,
                      RollupAt(record.segment, criteria.aggregationLevel))
    ELSE CompositeKey(record.geography, record.segment)

\* The key of a record under the multi-level strategy (4.4 b).
RawSeriesKey(record, criteria) ==
    IF criteria.viewMode = "geography-mode" THEN record.geography
    ELSE IF criteria.viewMode = "segment-mode" THEN record.segment
    ELSE CompositeKey(record.geography, record.segment)

\* prepareLineChartData
PrepareLineChartData(filtered, criteria, policy) ==
    GroupByYearAndKey(filtered,
        [i \in 1..Len(filtered) |-> RollupKey(filtered[i], criteria, policy)])

\* prepareIntelligentMultiLevelData
PrepareIntelligentMultiLevelData(filtered, criteria) ==
    GroupByYearAndKey(filtered,
        [i \in 1..Len(filtered) |-> RawSeriesKey(filtered[i], criteria)])

(***************************************************************************)
(* MultiLineChart: the chartData memo.                                     *)
(***************************************************************************)
DefaultAggregationLevel == 2

\* filters.dataType === 'value' ? data.data.value... : data.data.volume...
SelectedDataset(d, f) == IF f.dataType = "value" THEN d.value ELSE d.volume

\* (filters.advancedSegments || []).filter(seg => seg.type === filters.segmentType)
SegmentsFromSameType(f) ==
    SelectSeq(f.advancedSegments, LAMBDA seg : seg.type = f.segmentType)

HasUserSelectedSegments(f) == Len(SegmentsFromSameType(f)) > 0

\* A plausible slip: the default is applied before the selection is looked at.
EffectiveLevelDefaultFirst(f) ==
    IF f.aggregationLevel = Null THEN Some(DefaultAggregationLevel)
    ELSE IF HasUserSelectedSegments(f) THEN Null
    ELSE f.aggregationLevel

\* let effectiveAggregationLevel = filters.aggregationLevel ?? null; if ...
EffectiveAggregationLevel(f) ==
    IF ~HasUserSelectedSegments(f) /\ f.aggregationLevel = Null
    THEN Some(DefaultAggregationLevel)
    ELSE IF HasUserSelectedSegments(f) THEN Null
    ELSE f.aggregationLevel

IsGeographyMode(f) == f.viewMode = "geography-mode"

\* The other policy: the substitution only while the user has selected no
\* segment of the type.
EffectiveSegmentTypeUnlessSelected(f) == IF IsGeographyMode(f) /\ ~HasUserSelectedSegments(f) THEN "By Region" ELSE f.segmentType

\* isGeographyMode ? 'By Region' : filters.segmentType
EffectiveSegmentType(f) == IF IsGeographyMode(f) THEN "By Region" ELSE f.segmentType

\* A plausible slip: the segment type of the criteria is left as it is.
ModifiedFiltersKeepingSegmentType(f, effectiveAggregationLevel) ==
    [f EXCEPT !.aggregationLevel = effectiveAggregationLevel]
    @@ ("_geographyModeRegionView" :> (IsGeographyMode(f) /\ Len(f.geographies) = 0))

\* { ...filters, aggregationLevel, segmentType, _geographyModeRegionView }
ModifiedFilters(f, effectiveAggregationLevel) ==
    [f EXCEPT !.aggregationLevel = effectiveAggregationLevel,
              !.segmentType = EffectiveSegmentType(f)]
    @@ ("_geographyModeRegionView" :> (IsGeographyMode(f) /\ Len(f.geographies) = 0))

\* A plausible slip: the view mode is not looked at.
UseLineChartDataByLevel(f, effectiveAggregationLevel) ==
    effectiveAggregationLevel # Null

UseLineChartData(f, effectiveAggregationLevel) ==
    effectiveAggregationLevel # Null \/ IsGeographyMode(f)

\* The preparer called and the points it returned.
Prepare(f, effectiveAggregationLevel, filtered, modifiedFilters, policy) ==
    IF UseLineChartData(f, effectiveAggregationLevel)
    THEN [called |-> "prepareLineChartData",
          points |-> PrepareLineChartData(filtered, modifiedFilters, policy)]
    ELSE [called |-> "prepareIntelligentMultiLevelData",
          points |-> PrepareIntelligentMultiLevelData(filtered, modifiedFilters)]

\* uniquePairs.add(`${record.geography}::${record.segment}`) over filtered
UniquePairs(filtered) ==
    FirstAppearance([i \in 1..Len(filtered) |->
                        CompositeKey(filtered[i].geography, filtered[i].segment)])

\* let series = [] ... by view mode
SeriesFor(f, filtered, points) ==
    IF f.viewMode = "segment-mode" THEN ExtractSeriesFromPreparedData(points)
    ELSE IF f.viewMode = "geography-mode" THEN ExtractSeriesFromPreparedData(points)
    ELSE IF f.viewMode = "matrix" THEN UniquePairs(filtered)
    ELSE <<>>

\* The object given to console.log, the object returned, and the locals.
\* A plausible slip: Object.assign(filters, { ... }) writes the three fields
\* to the object it was given.
OriginalAfterAssign(f, modifiedFilters) == modifiedFilters

\* The object the callback was given, after the callback: { ...filters, ... }
\* makes a new object, which is the only one written to.
OriginalAfterSpread(f, modifiedFilters) == f

ChartResult(f, level, modifiedFilters, filtered, called, points, series) ==
    [chart |-> [data |-> points, series |-> series],
     filtersAfter |-> OriginalAfterSpread(f, modifiedFilters),
     log |-> Some([filteredCount |-> Len(filtered),
                   preparedLength |-> Len(points),
                   series |-> series,
                   viewMode |-> f.viewMode,
                   geographies |-> f.geographies,
                   segments |-> f.segments,
                   effectiveAggregationLevel |-> level]),
     locals |-> Some([filters |-> f,
                      modifiedFilters |-> modifiedFilters,
                      filtered |-> filtered,
                      called |-> called])]

ChartOfPrepared(f, effectiveAggregationLevel, modifiedFilters, filtered, preparation) ==
    ChartResult(f, effectiveAggregationLevel, modifiedFilters, filtered,
                preparation.called, preparation.points,
                SeriesFor(f, filtered, preparation.points))

ChartOfFiltered(f, effectiveAggregationLevel, modifiedFilters, filtered, policy) ==
    ChartOfPrepared(f, effectiveAggregationLevel, modifiedFilters, filtered,
                    Prepare(f, effectiveAggregationLevel, filtered, modifiedFilters,
                            policy))

ChartOfLevel(dataset, f, effectiveAggregationLevel, modifiedFilters, policy) ==
    ChartOfFiltered(f, effectiveAggregationLevel, modifiedFilters,
                    FilterData(dataset, modifiedFilters), policy)

ChartOfDataset(dataset, f, effectiveAggregationLevel, policy) ==
    ChartOfLevel(dataset, f, effectiveAggregationLevel,
                 ModifiedFilters(f, effectiveAggregationLevel), policy)

\* The callback of useMemo(..., [data, filters]); no log without data.
ComputeChart(d, f, policy) ==
    IF d = Null
    THEN [chart |-> EmptyChart, filtersAfter |-> f, log |-> lastLog, locals |-> chartLocals]
    ELSE ChartOfDataset(SelectedDataset(d[1], f), f, EffectiveAggregationLevel(f),
                        policy)

(***************************************************************************)
(* The chart's specification: the store's dataset and criteria change, and *)
(* each change re-renders the chart, whose memo is recomputed.             *)
(***************************************************************************)
MaxRecords == 4

\* The sample records of the specification's scenarios, then records of the
\* region view, of a second leaf and of a later year.
ValueRecords ==
    <<MarketRecord(2020, "U.S.", "Tablets", "By Type", 10),
      MarketRecord(2020, "Canada", "Tablets", "By Type", 5),
      MarketRecord(2021, "U.S.", "Tablets", "By Type", 12),
      MarketRecord(2021, "North America", "U.S.", "By Region", 20),
      MarketRecord(2020, "U.S.", "Intravenous", "By Type", 7),
      MarketRecord(2020, "Europe", "Germany", "By Region", 3)>>

VolumeRecords ==
    <<MarketRecord(2021, "Canada", "Capsules", "By Type", 4),
      MarketRecord(2020, "U.S.", "Tablets", "By Type", 6),
      MarketRecord(2020, "Europe", "Germany", "By Region", 2),
      MarketRecord(2020, "U.S.", "Capsules", "By Type", 1),
      MarketRecord(2021, "U.S.", "Intramuscular", "By Type", 9),
      MarketRecord(2021, "Europe", "Germany", "By Region", 8)>>

Prefix(records, n) ==
    SubSeq(records, 1, IF n < Len(records) THEN n ELSE Len(records))

\* dimensions.geographies.all_geographies: a field of the dataset of its own,
\* which the chart does not read.
SampleGeographies == <<"Global", "North America", "U.S.", "Canada", "Europe">>

Datasets ==
    {Dataset(SampleGeographies, Prefix(ValueRecords, n), Prefix(VolumeRecords, n)) : n \in 0..MaxRecords}

\* The values the criteria's fields take.
FilterValues ==
    [dataType |-> {"value", "volume"},
     viewMode |-> {"segment-mode", "geography-mode", "matrix"},
     segmentType |-> {"By Type", "By Region"},
     geographies |-> {<<>>, <<"U.S.">>, <<"Mars">>},
     segments |-> {<<>>, <<"Tablets">>},
     advancedSegments |->
        {<<>>,
         <<[type |-> "By Type", name |-> "Tablets"]>>,
         <<[type |-> "By Type", name |-> "Tablets"],
           [type |-> "By Region", name |-> "U.S."]>>},
     aggregationLevel |-> {Null, Some(2), Some(3)},
     yearRange |-> {<<2020, 2021>>, <<2021, 2021>>, <<2022, 2023>>}]

MatrixKeyPolicies == {"raw", "rolled"}

InitChart ==
    /\ data = Null
    /\ filters = DefaultFilters
    /\ chartData = EmptyChart
    /\ lastLog = Null
    /\ chartLocals = Null
    /\ matrixKeyPolicy \in MatrixKeyPolicies
    /\ InitTable
    /\ InitSelectors
    /\ geographyMemo = EmptyGeographyMemo
    /\ availableSegments = <<>>
    /\ regionMemo = EmptyRegionMemo
    /\ prepared = <<>>
    /\ extracted = Null
    /\ rendered = {}

\* A plausible slip: useMemo(..., [data]).
ChartDepsChangedDataOnly(d, f) == data # d

\* useMemo's test of [data, filters] against the dependencies of the render
\* before.  The store hands out a new object for every change, and the
\* callback reads nothing but data and filters, so that a change of identity
\* without a change of value recomputes the value the memo already holds.
ChartDepsChanged(d, f) == data # d \/ filters # f

\* The render of MultiLineChart that follows a change of the store: the memo
\* runs its callback when a dependency has changed.
\* The store's criteria are the object f, as the callback leaves it.
RenderMultiLineChart(d, f) ==
    IF ChartDepsChanged(d, f)
    THEN \E result \in {ComputeChart(d, f, matrixKeyPolicy)} :
            /\ chartData' = result.chart
            /\ lastLog' = result.log
            /\ chartLocals' = result.locals
            /\ filters' = result.filtersAfter
    ELSE UNCHANGED <<chartData, lastLog, chartLocals>> /\ filters' = f

\* The store's dataset is set by the loader.
SetData ==
    /\ \E d \in {Some(dataset) : dataset \in Datasets} :
          /\ data' = d
          /\ RenderMultiLineChart(d, filters)
    /\ UNCHANGED <<geographyMemo, availableSegments, regionMemo, prepared,
                   extracted, rendered, matrixKeyPolicy>>
    /\ UNCHANGED <<tableVars, selectVars, normalizer, objects>>

\* updateFilters({ field: value })
UpdateFilters ==
    /\ \E field \in DOMAIN FilterValues :
          \E value \in FilterValues[field] :
             RenderMultiLineChart(data, [filters EXCEPT ![field] = value])
    /\ UNCHANGED <<data, geographyMemo, availableSegments, regionMemo, prepared,
                   extracted, rendered, matrixKeyPolicy>>
    /\ UNCHANGED <<tableVars, selectVars, normalizer, objects>>

NextChart == SetData \/ UpdateFilters

SpecChart == InitChart /\ [][NextChart]_vars

(***************************************************************************)
(* Properties of the chart computation.                                    *)
(***************************************************************************)
\* The records of the partition the criteria select.
StoreRecords == IF data = Null THEN <<>> ELSE SelectedDataset(data[1], filters)

\* The inclusion predicate of the filter, for the criteria of the store and
\* the segment type in effect.
PassesFilter(record) ==
    /\ filters.yearRange[1] <= record.year
    /\ record.year <= filters.yearRange[2]
    /\ (filters.geographies = <<>> \/ record.geography \in Range(filters.geographies))
    /\ (filters.segments = <<>> \/ record.segment \in Range(filters.segments))
    /\ record.segmentType
          = (IF filters.viewMode = "geography-mode" THEN "By Region"
             ELSE filters.segmentType)

NothingPasses == \A i \in 1..Len(StoreRecords) : ~PassesFilter(StoreRecords[i])

\* The series list is exactly the set of non-year keys of the points.
SeriesAreThePointKeys == Range(chartData.series) = NonYearKeys(chartData.data)

\* C9: when the dataset is absent or empty, or the filter excludes every
\* record, the chart computation returns no point and no series, in every
\* view mode.
C9_NothingToShowIsEmpty ==
    (data = Null \/ NothingPasses) =>
       /\ chartData.data = <<>>
       /\ chartData.series = <<>>

\* In the matrix view a dataset with records is loaded and the selected
\* geography excludes all of them.
C9_Witness ==
    /\ data # Null
    /\ Len(StoreRecords) > 0
    /\ filters.viewMode = "matrix"
    /\ filters.geographies = <<"Mars">>
    /\ lastLog # Null
    /\ lastLog[1].filteredCount = 0
    /\ lastLog[1].viewMode = "matrix"
    /\ chartData = [data |-> <<>>, series |-> <<>>]

\* An entry of advancedSegments has the type of the criteria's segmentType.
SelectedInSegmentType ==
    \E i \in 1..Len(filters.advancedSegments) :
       filters.advancedSegments[i].type = filters.segmentType

\* C10: the effective aggregation level is none when advancedSegments holds
\* an entry of the current segmentType, whatever aggregationLevel says;
\* otherwise it is 2 when aggregationLevel is none, and the given
\* aggregationLevel when it is not.
C10_EffectiveLevelDerivation ==
    (data # Null /\ lastLog # Null) =>
       lastLog[1].effectiveAggregationLevel
          = (IF SelectedInSegmentType THEN <<>>
             ELSE IF filters.aggregationLevel = <<>> THEN <<2>>
             ELSE filters.aggregationLevel)

\* The level 3 is requested, the user has selected a segment of the current
\* segment type (after one of another type), and no level is in effect.
C10_Witness ==
    /\ data # Null
    /\ lastLog # Null
    /\ filters.aggregationLevel = <<3>>
    /\ filters.segmentType = "By Region"
    /\ Len(filters.advancedSegments) = 2
    /\ SelectedInSegmentType
    /\ lastLog[1].effectiveAggregationLevel = <<>>

\* The chart has been computed from the data and the criteria of the store.
ChartComputed == data # Null /\ lastLog # Null /\ chartLocals # Null

LevelAggregated == chartLocals[1].called = "prepareLineChartData"

MultiLevel == chartLocals[1].called = "prepareIntelligentMultiLevelData"

LevelInEffect == lastLog[1].effectiveAggregationLevel # <<>>

\* C11: the caller uses the level-aggregated strategy if and only if an
\* aggregation level is in effect, and the multi-level strategy otherwise,
\* in every view mode.
C11_LevelAggregatedIffLevelInEffect ==
    ChartComputed =>
       /\ LevelAggregated <=> LevelInEffect
       /\ MultiLevel <=> ~LevelInEffect

\* C11 amended: the caller uses the level-aggregated strategy if and only if
\* an aggregation level is in effect or the view mode is geography-mode, and
\* the multi-level strategy otherwise.
C11_LevelAggregatedIffLevelOrGeographyMode ==
    ChartComputed =>
       /\ LevelAggregated <=> (LevelInEffect \/ filters.viewMode = "geography-mode")
       /\ MultiLevel <=> ~(LevelInEffect \/ filters.viewMode = "geography-mode")

\* In geography-mode the user has selected a segment of the current type, so
\* that no level is in effect, and the level-aggregated preparer was called.
C11_Witness ==
    /\ ChartComputed
    /\ filters.viewMode = "geography-mode"
    /\ SelectedInSegmentType
    /\ ~LevelInEffect
    /\ LevelAggregated

\* Scenario 1 of the specification: its three records and its criteria.
SampleRecords ==
    <<[year |-> 2020, geography |-> "U.S.", segment |-> "Tablets",
       segmentType |-> "By Type", value |-> 10],
      [year |-> 2020, geography |-> "Canada", segment |-> "Tablets",
       segmentType |-> "By Type", value |-> 5],
      [year |-> 2021, geography |-> "U.S.", segment |-> "Tablets",
       segmentType |-> "By Type", value |-> 12]>>

Scenario1Criteria ==
    /\ filters.dataType = "value"
    /\ filters.viewMode = "segment-mode"
    /\ filters.yearRange = <<2020, 2021>>
    /\ filters.geographies = <<>>
    /\ filters.segments = <<>>
    /\ filters.segmentType = "By Type"
    /\ filters.aggregationLevel = <<>>

SampleLoaded == data # Null /\ data[1].value = SampleRecords

PointWith(year, key, value) ==
    <<[key |-> "year", value |-> year], [key |-> key, value |-> value]>>

LeafChart ==
    [data |-> <<PointWith(2020, "Tablets", 15), PointWith(2021, "Tablets", 12)>>,
     series |-> <<"Tablets">>]

\* C12: scenario 1 with no advanced segments gives the points
\* [{year 2020, Tablets 15}, {year 2021, Tablets 12}] and the series
\* ['Tablets'].
C12_Scenario1WithoutSelection ==
    (SampleLoaded /\ Scenario1Criteria /\ filters.advancedSegments = <<>>) =>
       chartData = LeafChart

\* C12 amended: scenario 1 with an advanced segment of the type 'By Type', so
\* that no aggregation level is in effect, gives the points
\* [{year 2020, Tablets 15}, {year 2021, Tablets 12}] and the series
\* ['Tablets'].
C12_Scenario1WithSelection ==
    (SampleLoaded /\ Scenario1Criteria /\ SelectedInSegmentType) =>
       chartData = LeafChart

\* Scenario 1 with the segment 'Tablets' selected has been computed by the
\* multi-level preparer.
C12_Witness ==
    /\ SampleLoaded
    /\ Scenario1Criteria
    /\ filters.advancedSegments = <<[type |-> "By Type", name |-> "Tablets"]>>
    /\ ChartComputed
    /\ MultiLevel
    /\ chartData = LeafChart

\* The tests of the filter other than the year test.
PassesOtherTests(record) ==
    /\ (filters.geographies = <<>> \/ record.geography \in Range(filters.geographies))
    /\ (filters.segments = <<>> \/ record.segment \in Range(filters.segments))
    /\ record.segmentType
          = (IF filters.viewMode = "geography-mode" THEN "By Region"
             ELSE filters.segmentType)

\* C15: a record passes the year test if and only if
\* startYear <= record.year <= endYear; a record of either bound is included.
C15_YearRangeInclusive ==
    ChartComputed =>
       \A i \in 1..Len(StoreRecords) :
          PassesOtherTests(StoreRecords[i]) =>
             (StoreRecords[i] \in Range(chartLocals[1].filtered)
                <=> /\ filters.yearRange[1] <= StoreRecords[i].year
                    /\ StoreRecords[i].year <= filters.yearRange[2])

\* The range is one year: the records of that year, which is both bounds,
\* have passed, and a record of the year before has not.
C15_Witness ==
    /\ ChartComputed
    /\ filters.yearRange = <<2021, 2021>>
    /\ Len(chartLocals[1].filtered) > 0
    /\ \A i \in 1..Len(chartLocals[1].filtered) : chartLocals[1].filtered[i].year = 2021
    /\ \E i \in 1..Len(StoreRecords) : StoreRecords[i].year = 2020

\* The series key to which a filtered record contributes, under the strategy
\* the caller chose.
ContributionKey(record) ==
    IF LevelAggregated
    THEN RollupKey(record, chartLocals[1].modifiedFilters, matrixKeyPolicy)
    ELSE RawSeriesKey(record, chartLocals[1].modifiedFilters)

YearOf(point) == (CHOOSE e \in Range(point) : e.key = "year").value

HasContribution(year, key) ==
    \E i \in 1..Len(chartLocals[1].filtered) :
       /\ chartLocals[1].filtered[i].year = year
       /\ ContributionKey(chartLocals[1].filtered[i]) = key

\* C16: in every prepared point a series key is present only if a filtered
\* record contributes to its (year, key) pair; a pair without a contributing
\* record is absent from the point, not present with the value 0.
C16_KeyOnlyWithContribution ==
    ChartComputed =>
       \A p \in 1..Len(chartData.data) :
          \A e \in Range(chartData.data[p]) :
             e.key # "year" => HasContribution(YearOf(chartData.data[p]), e.key)

\* Two series have records in 2020 and one of them has none in 2021: it is
\* absent from the point of 2021.
C16_Witness ==
    /\ ChartComputed
    /\ MultiLevel
    /\ chartData.data
          = <<<<[key |-> "year", value |-> 2020], [key |-> "Capsules", value |-> 1],
                [key |-> "Tablets", value |-> 6]>>,
              <<[key |-> "year", value |-> 2021], [key |-> "Capsules", value |-> 4]>>>>

\* C17: after any sequence of changes of the dataset and of the criteria,
\* the memoized chart result equals the result computed from the current
\* dataset and the current criteria.
C17_MemoIsCurrent ==
    /\ chartData = ComputeChart(data, filters, matrixKeyPolicy).chart
    /\ data # Null => /\ chartLocals # Null
                      /\ chartLocals[1].filters = filters

\* The dataset has been loaded and the criteria changed since; the callback
\* last ran with the criteria of the store and returned points.
C17_Witness ==
    /\ data # Null
    /\ filters.viewMode = "matrix"
    /\ filters.yearRange = <<2021, 2021>>
    /\ chartLocals # Null
    /\ chartLocals[1].filters = filters
    /\ Len(chartData.data) = 1
    /\ chartData.series = <<"U.S.::Tablets">>

\* The criteria the callback has just been given, and the copy it made.
GivenFilters == chartLocals'[1].filters

CopiedFilters == chartLocals'[1].modifiedFilters

\* C21: a computation of the chart data leaves the criteria it was given as
\* they were, field by field and with no field added; the effective
\* aggregation level, the effective segment type and the region-view flag are
\* in the copy only.
C21_CriteriaNotModified == [][(chartLocals' # chartLocals) => (filters' = GivenFilters /\ DOMAIN filters' = DOMAIN DefaultFilters /\ CopiedFilters.aggregationLevel = EffectiveAggregationLevel(GivenFilters) /\ CopiedFilters.segmentType = EffectiveSegmentType(GivenFilters) /\ CopiedFilters._geographyModeRegionView = (IsGeographyMode(GivenFilters) /\ Len(GivenFilters.geographies) = 0))]_vars

\* The chart has been computed in geography-mode with no geography selected:
\* the copy differs from the criteria in all three fields, and the store
\* still holds the criteria.
C21_Witness ==
    /\ ChartComputed
    /\ filters = [DefaultFilters EXCEPT !.viewMode = "geography-mode"]
    /\ chartLocals[1].filters = filters
    /\ chartLocals[1].modifiedFilters.segmentType = "By Region"
    /\ chartLocals[1].modifiedFilters.aggregationLevel = Some(2)
    /\ chartLocals[1].modifiedFilters._geographyModeRegionView

\* The segment type the filter and the preparer were handed, and the types of
\* the records that passed the filter.
SegmentTypeInUse == chartLocals[1].modifiedFilters.segmentType

FilteredSegmentTypes == {chartLocals[1].filtered[i].segmentType : i \in 1..Len(chartLocals[1].filtered)}

\* C22: in geography-mode the criteria handed to the filter and the preparer
\* carry the segment type 'By Region', whatever the criteria's own segment type
\* and whether or not the user has selected segments; in every other view mode
\* they carry the criteria's segment type.
C22_SegmentTypeInUse ==
    ChartComputed =>
       /\ chartLocals[1].filters.viewMode = "geography-mode" => SegmentTypeInUse = "By Region"
       /\ chartLocals[1].filters.viewMode # "geography-mode" => SegmentTypeInUse = chartLocals[1].filters.segmentType

\* Geography-mode with criteria of type 'By Type' and a selected segment of
\* that type: a record of the region view has passed the filter.
C22_Witness ==
    /\ ChartComputed
    /\ chartLocals[1].filters.viewMode = "geography-mode"
    /\ chartLocals[1].filters.segmentType = "By Type"
    /\ HasUserSelectedSegments(chartLocals[1].filters)
    /\ SegmentTypeInUse = "By Region"
    /\ FilteredSegmentTypes = {"By Region"}

(***************************************************************************)
(* The selectors' memos under changing labels: both selectors are mounted, *)
(* the store's dataset or the availableSegments prop is replaced by a new  *)
(* object or written to in place, and the selector renders again.  useMemo *)
(* compares each dependency with that of the render before by Object.is,   *)
(* that is by the identity of the object.  A run has the labels in one of  *)
(* the two places.                                                         *)
(***************************************************************************)
\* A plausible slip: useMemo(..., []).
GeographyDepsNeverChange(id) == FALSE

\* GeographyMultiSelect: useMemo's test of [data] against the render before;
\* id is the identity of the object the render reads from the store.
GeographyDepsChanged(id) == objects.data # id

\* HierarchicalRegionSelect: useMemo's test of [availableSegments]; id is the
\* identity of the array the render is given.
RegionDepsChanged(id) == objects.availableSegments # id

\* The identity of a new object: one that the object it replaces does not
\* have.
NewIdentity(replaced) == IF replaced = 1 THEN 2 ELSE 1

\* The labels the lists change by: two of one normal form, a region, a
\* child of it, and a label the template does not have.
ChangingLabels == {"US", "U.S.", "Canada", " North  America", "Mars"}

\* The label lists one change away: a label more, or the first label dropped.
ChangedLists(l) ==
    (IF Len(l) < MaxLabels THEN {Append(l, label) : label \in ChangingLabels} ELSE {})
    \cup (IF Len(l) > 0 THEN {Tail(l)} ELSE {})

\* The labels pushed to a list in place.
PushedLabels == {"Canada", "Mars"}

\* The two selectors mounted over empty lists; the search box of
\* GeographyMultiSelect is empty, or its dropdown is open and 'us' has been
\* typed (no region is listed yet, so none is expanded).
InitLabels ==
    /\ data \in {Null, Some(Dataset(<<>>, <<>>, <<>>))}
    /\ availableSegments = <<>>
    /\ geographyMemo = GeographyMemo(data)
    /\ regionMemo = RegionMemo(availableSegments)
    /\ rendered = {"GeographyMultiSelect", "HierarchicalRegionSelect"}
    /\ filters = DefaultFilters
    /\ chartData = EmptyChart
    /\ lastLog = Null
    /\ prepared = <<>>
    /\ extracted = Null
    /\ chartLocals = Null
    /\ matrixKeyPolicy = "raw"
    /\ InitTable
    /\ geoSelect \in {[isOpen |-> FALSE, searchTerm |-> "", expandedRegions |-> {}]}
                     \cup (IF data # Null THEN {[isOpen |-> TRUE, searchTerm |-> "us", expandedRegions |-> {}]} ELSE {})
    /\ regionSelect = [isOpen |-> FALSE, expandedRegions |-> {}, selectedRegion |-> ""]
    /\ onSelectCalled = Null
    /\ normalizer = [name |-> "", results |-> <<>>]
    /\ objects = FirstObjects

\* A render of GeographyMultiSelect with the store's data d, an object of
\* identity id, and the effect of [searchTerm, hierarchicalGeographies] that
\* runs after it.  With another object than the render before had, the memo
\* runs its callback, whether or not the labels differ, and the effect runs
\* on the new tree: with a search term, every region of it is expanded.  With
\* the same object the memo keeps what it holds; allGeographies, which is
\* the object's own array, reads as the array now is.
RerenderGeographyMultiSelect(d, id) ==
    /\ geographyMemo' = IF GeographyDepsChanged(id) THEN GeographyMemo(d)
                        ELSE IF d = Null THEN geographyMemo
                        ELSE [geographyMemo EXCEPT !.allGeographies = d[1].all_geographies]
    /\ geoSelect' = IF GeographyDepsChanged(id) /\ geoSelect.searchTerm # ""
                    THEN [geoSelect EXCEPT !.expandedRegions = {geographyMemo'.hierarchicalGeographies[k].name : k \in 1..Len(geographyMemo'.hierarchicalGeographies)}]
                    ELSE geoSelect

\* A render of HierarchicalRegionSelect with the array segments, of identity
\* id, as its prop.
RerenderHierarchicalRegionSelect(segments, id) ==
    regionMemo' = IF RegionDepsChanged(id) THEN RegionMemo(segments) ELSE regionMemo

\* The store's dataset is replaced by a new object, with other labels or with
\* the same, and GeographyMultiSelect renders.
SetDataLabels ==
    /\ data # Null
    /\ \E l \in ChangedLists(data[1].all_geographies) \cup {data[1].all_geographies} :
          /\ data' = Some(Dataset(l, <<>>, <<>>))
          /\ RerenderGeographyMultiSelect(Some(Dataset(l, <<>>, <<>>)), NewIdentity(objects.data))
    /\ objects' = [objects EXCEPT !.data = NewIdentity(@), !.written = @ \ {"data"}]
    /\ UNCHANGED <<availableSegments, regionMemo, rendered>>
    /\ UNCHANGED chartVars
    /\ UNCHANGED <<tableVars, regionSelect, onSelectCalled, normalizer>>

\* all_geographies.push(label) on the dataset the store holds, and the next
\* render of GeographyMultiSelect: the object is the one the render before
\* had.
PushDataLabel ==
    /\ data # Null
    /\ Len(data[1].all_geographies) < MaxLabels
    /\ \E label \in PushedLabels :
          /\ data' = Some(Dataset(Append(data[1].all_geographies, label), <<>>, <<>>))
          /\ RerenderGeographyMultiSelect(data', objects.data)
    /\ objects' = [objects EXCEPT !.written = @ \cup {"data"}]
    /\ UNCHANGED <<availableSegments, regionMemo, rendered>>
    /\ UNCHANGED chartVars
    /\ UNCHANGED <<tableVars, regionSelect, onSelectCalled, normalizer>>

\* The parent hands HierarchicalRegionSelect a new array, with other labels
\* or with the same.
SetAvailableSegments ==
    /\ data = Null
    /\ \E l \in ChangedLists(availableSegments) \cup {availableSegments} :
          /\ availableSegments' = l
          /\ RerenderHierarchicalRegionSelect(l, NewIdentity(objects.availableSegments))
    /\ objects' = [objects EXCEPT !.availableSegments = NewIdentity(@), !.written = @ \ {"availableSegments"}]
    /\ UNCHANGED <<data, geographyMemo, rendered>>
    /\ UNCHANGED chartVars
    /\ UNCHANGED <<tableVars, selectVars, normalizer>>

\* The parent pushes a label to the array it has handed over and renders
\* HierarchicalRegionSelect with the same array.
PushAvailableSegment ==
    /\ data = Null
    /\ Len(availableSegments) < MaxLabels
    /\ \E label \in PushedLabels :
          /\ availableSegments' = Append(availableSegments, label)
          /\ RerenderHierarchicalRegionSelect(availableSegments', objects.availableSegments)
    /\ objects' = [objects EXCEPT !.written = @ \cup {"availableSegments"}]
    /\ UNCHANGED <<data, geographyMemo, rendered>>
    /\ UNCHANGED chartVars
    /\ UNCHANGED <<tableVars, selectVars, normalizer>>

NextLabels == SetDataLabels \/ PushDataLabel \/ SetAvailableSegments \/ PushAvailableSegment

SpecLabels == InitLabels /\ [][NextLabels]_vars


\* The tree and the unmatched bucket each memo holds are those computed from
\* the labels as they are now.
GeographyTreeIsCurrent ==
    /\ geographyMemo.hierarchicalGeographies = GeographyMemo(data).hierarchicalGeographies
    /\ geographyMemo.unmatchedGeographies = GeographyMemo(data).unmatchedGeographies

RegionTreeIsCurrent ==
    /\ regionMemo.hierarchicalRegions = RegionMemo(availableSegments).hierarchicalRegions
    /\ regionMemo.unmatchedRegions = RegionMemo(availableSegments).unmatchedRegions

\* tree is still that of 'US' alone.
StaleAfterPush ==
    /\ data # Null
    /\ data[1].all_geographies = <<"US", "Canada">>
    /\ "data" \in objects.written
    /\ geographyMemo.hierarchicalGeographies
          = <<[name |-> "North America", children |-> <<[name |-> "US"]>>,
               existsInData |-> TRUE]>>
    /\ geographyMemo.allGeographies = <<"US", "Canada">>

\* The store's data has been replaced by an object of the same labels while
\* 'north' was searched for: the effect has run again and has expanded the
\* region the user had not expanded.
ReexpandedByEqualData ==
    /\ data # Null
    /\ data[1].all_geographies = <<"US">>
    /\ objects.data = 1
    /\ geoSelect.searchTerm = "us"
    /\ geoSelect.expandedRegions = {"North America"}


(***************************************************************************)
(* CrossCustomerTable: the load effect.  loadData is an async function;    *)
(* each of its runs stops at its two awaits (the fetch, then the body's    *)
(* JSON), and the code between two awaits, catch and finally included,     *)
(* runs as one step.  The effect runs once per mount; MaxLoads runs are    *)
(* modelled, so that a run can settle while another is still in flight.    *)
(***************************************************************************)

\* A cell of the sheet is a number or a string; a column a row lacks reads
\* as undefined.
Num(n) == [number |-> n]

Str(s) == [string |-> s]

Undefined == [undefined |-> TRUE]

\* What the route answers with status 200: { headers, rows, totalRows }, each
\* row an object keyed by the headers (for a header row and a blank row, no
\* rows).
LoadResults == { [headers |-> <<"Company Name", "Region">>, rows |-> <<>>, totalRows |-> 0], [headers |-> <<"Company Name", "Region">>, rows |-> <<("Company Name" :> Str("Acme")) @@ ("Region" :> Str("Europe"))>>, totalRows |-> 1] }

\* What a rejected fetch throws: a TypeError with the browser's message, or
\* (the code allows for it) a value that is no Error.
FetchRejections == { [isError |-> TRUE, message |-> "Failed to fetch"], [isError |-> TRUE, message |-> "NetworkError when attempting to fetch resource."], [isError |-> FALSE, message |-> ""] }

\* The Error thrown for a response that is not ok.
NotOkError == [isError |-> TRUE, message |-> "Failed to load cross-customer data"]

\* What response.json() throws for a body that is not JSON.
JsonRejections == { [isError |-> TRUE, message |-> "Unexpected token"] }

\* err instanceof Error ? err.message : 'Failed to load data'
ErrorMessage(err) == IF err.isError THEN err.message ELSE "Failed to load data"

\* A try block whose setLoading(false) is not in a finally: not run on a throw.
CatchWithoutFinally(t, err) == [t EXCEPT !.error = Some(ErrorMessage(err))]

\* The catch block, then the finally block.
CatchAndFinally(t, err) == [t EXCEPT !.error = Some(ErrorMessage(err)), !.loading = FALSE]

\* setData(result), then the finally block.
LoadedAndFinally(t, result) == [t EXCEPT !.data = Some(result), !.loading = FALSE]

\* What the component renders: the tests of the return statements, in order.
TableView(t) == IF t.loading THEN "loading" ELSE IF t.error # Null /\ t.error[1] # "" THEN "error" ELSE IF t.data = Null \/ Len(t.data[1].rows) = 0 THEN "empty" ELSE "table"

InitLoad ==
    /\ data = Null
    /\ filters = DefaultFilters
    /\ availableSegments = <<>>
    /\ geographyMemo = GeographyMemo(Null)
    /\ regionMemo = RegionMemo(<<>>)
    /\ rendered = {}
    /\ chartData = EmptyChart
    /\ lastLog = Null
    /\ chartLocals = Null
    /\ prepared = Null
    /\ extracted = Null
    /\ matrixKeyPolicy = "raw"
    /\ InitTable
    /\ InitSelectors

loadVars == <<data, filters, geographyMemo, availableSegments, regionMemo, chartData, lastLog, prepared, extracted, rendered, chartLocals, matrixKeyPolicy, tableControls, locale, normalizer, objects>>

\* The effect runs loadData: setLoading(true), then the fetch is awaited.
StartLoad(i) ==
    /\ loads[i] = "idle"
    /\ table' = [table EXCEPT !.loading = TRUE]
    /\ loads' = [loads EXCEPT ![i] = "fetching"]
    /\ UNCHANGED <<competitiveIntelligenceData, loadVars, selectVars>>

\* The fetch rejects.
FetchRejects(i) ==
    /\ loads[i] = "fetching"
    /\ \E err \in FetchRejections : table' = CatchAndFinally(table, err)
    /\ loads' = [loads EXCEPT ![i] = "failed"]
    /\ UNCHANGED <<competitiveIntelligenceData, loadVars, selectVars>>

\* The fetch resolves with a response that is not ok (the route's 404, 400
\* or 500): the Error thrown in the try block is caught.
ResponseNotOk(i) ==
    /\ loads[i] = "fetching"
    /\ table' = CatchAndFinally(table, NotOkError)
    /\ loads' = [loads EXCEPT ![i] = "failed"]
    /\ UNCHANGED <<competitiveIntelligenceData, loadVars, selectVars>>

\* The fetch resolves with an ok response: its JSON is awaited.
ResponseOk(i) ==
    /\ loads[i] = "fetching"
    /\ loads' = [loads EXCEPT ![i] = "parsing"]
    /\ UNCHANGED <<table, competitiveIntelligenceData, loadVars, selectVars>>

\* The body parses: setData, setCompetitiveIntelligenceData, finally.
JsonResolves(i) ==
    /\ loads[i] = "parsing"
    /\ \E result \in LoadResults :
          /\ table' = LoadedAndFinally(table, result)
          /\ competitiveIntelligenceData' = Some([headers |-> result.headers, rows |-> result.rows])
    /\ loads' = [loads EXCEPT ![i] = "loaded"]
    /\ UNCHANGED <<loadVars, selectVars>>

\* The body does not parse.
JsonRejects(i) ==
    /\ loads[i] = "parsing"
    /\ \E err \in JsonRejections : table' = CatchAndFinally(table, err)
    /\ loads' = [loads EXCEPT ![i] = "unparsed"]
    /\ UNCHANGED <<competitiveIntelligenceData, loadVars, selectVars>>

NextLoad ==
    \/ \E i \in 1..MaxLoads : StartLoad(i)
    \/ \E i \in 1..MaxLoads : FetchRejects(i)
    \/ \E i \in 1..MaxLoads : ResponseNotOk(i)
    \/ \E i \in 1..MaxLoads : ResponseOk(i)
    \/ \E i \in 1..MaxLoads : JsonResolves(i)
    \/ \E i \in 1..MaxLoads : JsonRejects(i)

SpecLoad == InitLoad /\ [][NextLoad]_vars

\* C19: a step in which a load fails (its fetch rejects, or its response is
\* not ok) leaves the table in the error state: error is non-null and it is
\* the error view that is rendered, the table's data and the store's copy are
\* what they were before the step, and loading is false.
C19_FailedLoadEntersErrorState == [][\A i \in 1..MaxLoads : (loads[i] = "fetching" /\ loads'[i] = "failed") => (table'.error # Null /\ TableView(table') = "error" /\ table'.data = table.data /\ competitiveIntelligenceData' = competitiveIntelligenceData /\ table'.loading = FALSE)]_vars

\* A load has failed for a response that is not ok while nothing was loaded.
C19_Witness == (\E i \in 1..MaxLoads : loads[i] = "failed") /\ table = [data |-> Null, loading |-> FALSE, error |-> Some("Failed to load cross-customer data")] /\ competitiveIntelligenceData = Null


(***************************************************************************)
(* The selectors' click handlers.  Both selectors are mounted over the     *)
(* same label list; a user action is a click on an element the current     *)
(* render shows, or a change of the search box.                            *)
(***************************************************************************)

\* String.prototype.includes
StringIncludes(s, sub) == \E i \in 1..(Len(s) - Len(sub) + 1) : SubSeq(s, i, i + Len(sub) - 1) = sub

\* What the user types in the search box.
SearchTerms == {"", "us", "North"}

\* The callback of items.map in filterHierarchy: <<>> stands for null.
FilterRegion(region, search) ==
    LET ChildMatches(child) == StringIncludes(ToLowerCase(child.name), search)
    IN  IF StringIncludes(ToLowerCase(region.name), search)
        THEN <<[name |-> region.name, children |-> region.children]>>
        ELSE IF Len(SelectSeq(region.children, ChildMatches)) > 0
             THEN <<[name |-> region.name, children |-> SelectSeq(region.children, ChildMatches)]>>
             ELSE <<>>

\* items.map(...).filter(Boolean), from the i-th item on.
RECURSIVE FilterHierarchyFrom(_, _, _)
FilterHierarchyFrom(items, search, i) ==
    IF i > Len(items) THEN <<>>
    ELSE FilterRegion(items[i], search) \o FilterHierarchyFrom(items, search, i + 1)

\* unmatchedGeographies.filter(geo => geo.toLowerCase().includes(search))
FilterUnmatched(unmatched, search) ==
    LET GeoMatches(geo) == StringIncludes(ToLowerCase(geo), search)
    IN  SelectSeq(unmatched, GeoMatches)

\* The filteredHierarchy memo.
FilteredHierarchy(memo, searchTerm) ==
    IF searchTerm = ""
    THEN [hierarchy |-> memo.hierarchicalGeographies, unmatched |-> memo.unmatchedGeographies]
    ELSE [hierarchy |-> FilterHierarchyFrom(memo.hierarchicalGeographies, ToLowerCase(searchTerm), 1),
          unmatched |-> FilterUnmatched(memo.unmatchedGeographies, ToLowerCase(searchTerm))]

\* A plausible slip: the region and its children are pushed without asking
\* whether the data holds them.
RegionGeosUnchecked(region, allGeographies) == <<region.name>> \o ChildNames(region)

\* regionGeos of handleSelectRegion: the region itself and its children, each
\* only if allGeographies includes it.
RegionGeos(region, allGeographies) ==
    LET InData(name) == name \in Range(allGeographies)
    IN  SelectSeq(<<region.name>> \o ChildNames(region), InData)

\* new Set(array), as Array.from lists it: first occurrences, in order.
RECURSIVE SetOf(_)
SetOf(array) ==
    IF Len(array) = 0 THEN <<>>
    ELSE LET IsNot(name) == name # array[1]
         IN  <<array[1]>> \o SetOf(SelectSeq(Tail(array), IsNot))

\* A plausible slip: the selection is an array and the labels are pushed.
AddAllPushing(current, geos, i) == current \o geos

\* geos.forEach(geo => current.add(geo)), from the i-th on.
RECURSIVE AddAll(_, _, _)
AddAll(current, geos, i) ==
    IF i > Len(geos) THEN current
    ELSE AddAll(IF geos[i] \in Range(current) THEN current ELSE Append(current, geos[i]), geos, i + 1)

\* geos.forEach(geo => current.delete(geo))
DeleteAll(current, geos) ==
    LET Kept(name) == name \notin Range(geos)
    IN  SelectSeq(current, Kept)

\* geos.forEach(geo => current.has(geo) ? current.delete(geo) : current.add(geo)),
\* from the i-th on.
RECURSIVE ToggleEachFrom(_, _, _)
ToggleEachFrom(current, geos, i) ==
    IF i > Len(geos) THEN current
    ELSE ToggleEachFrom(IF geos[i] \in Range(current) THEN DeleteAll(current, <<geos[i]>>) ELSE Append(current, geos[i]), geos, i + 1)

\* A plausible slip: every label of the region is toggled by itself.
ToggleEachOfRegion(current, regionGeos) == ToggleEachFrom(current, regionGeos, 1)

\* handleSelectRegion's new selection, for the selection so far as a Set.
ToggleRegion(current, regionGeos) ==
    IF Range(regionGeos) \subseteq Range(current)
    THEN DeleteAll(current, regionGeos)
    ELSE AddAll(current, regionGeos, 1)

\* handleToggle's new selection.
ToggleGeography(current, geography) ==
    LET IsNot(name) == name # geography
    IN  IF geography \in Range(current) THEN SelectSeq(current, IsNot) ELSE Append(current, geography)

\* isRegionFullySelected
IsRegionFullySelected(region, allGeographies, geographies) ==
    /\ Len(RegionGeos(region, allGeographies)) > 0
    /\ Range(RegionGeos(region, allGeographies)) \subseteq Range(geographies)

\* toggleRegionExpand
ToggleExpand(expanded, regionName) ==
    IF regionName \in expanded THEN expanded \ {regionName} ELSE expanded \cup {regionName}

\* The regions and children a render of HierarchicalRegionSelect lists.
RegionIndices == 1..Len(regionMemo.hierarchicalRegions)

\* The labels the selectors are mounted over: two children of a template
\* region, the region itself, and a label the templates do not hold.
SelectorLabels == {"US", "Canada", " North  America", "Mars"}

SelectorLabelLists == {l \in LabelLists : Range(l) \subseteq SelectorLabels}

InitSelect ==
    /\ \E l \in SelectorLabelLists :
          /\ data = Some(Dataset(l, <<>>, <<>>))
          /\ availableSegments = l
    /\ geographyMemo = GeographyMemo(data)
    /\ regionMemo = RegionMemo(availableSegments)
    /\ rendered = {"GeographyMultiSelect", "HierarchicalRegionSelect"}
    /\ filters = DefaultFilters
    /\ chartData = EmptyChart
    /\ lastLog = Null
    /\ prepared = <<>>
    /\ extracted = Null
    /\ chartLocals = Null
    /\ matrixKeyPolicy = "raw"
    /\ InitTable
    /\ InitSelectors

fixedVars == <<data, geographyMemo, availableSegments, regionMemo, chartData, lastLog, prepared, extracted, rendered, chartLocals, matrixKeyPolicy, normalizer, objects>>

\* What a handler of HierarchicalRegionSelect leaves alone.
regionSelectFrame == <<geoSelect, filters, fixedVars, tableVars>>

\* What a handler of GeographyMultiSelect leaves alone (the filters apart,
\* which the checkboxes and the two buttons change through the store).
geographySelectFrame == <<regionSelect, onSelectCalled, fixedVars, tableVars>>

\* Where a mousedown can land: in one of the two components or elsewhere in
\* the document.
MouseDownTargets == {"GeographyMultiSelect", "HierarchicalRegionSelect", "elsewhere"}

\* handleClickOutside of the two components: a document mousedown listener
\* that each registers while its dropdown is open, and that closes the
\* dropdown when the target is not inside the component.  It runs in the
\* mousedown event, before the click that may follow, and not at all when
\* an element is activated from the keyboard.
MouseDown(target) ==
    /\ geoSelect' = IF geoSelect.isOpen /\ target # "GeographyMultiSelect"
                    THEN [geoSelect EXCEPT !.isOpen = FALSE] ELSE geoSelect
    /\ regionSelect' = IF regionSelect.isOpen /\ target # "HierarchicalRegionSelect"
                       THEN [regionSelect EXCEPT !.isOpen = FALSE] ELSE regionSelect
    /\ UNCHANGED <<filters, onSelectCalled, fixedVars, tableVars>>

\* handleSelect(segment)
HandleSelect(segment) ==
    /\ regionSelect' = [regionSelect EXCEPT !.selectedRegion = segment, !.isOpen = FALSE]
    /\ onSelectCalled' = Some(segment)
    /\ UNCHANGED regionSelectFrame

\* The dropdown button of HierarchicalRegionSelect.
ClickRegionButton ==
    /\ regionSelect' = [regionSelect EXCEPT !.isOpen = ~regionSelect.isOpen]
    /\ UNCHANGED onSelectCalled
    /\ UNCHANGED regionSelectFrame

\* The expand icon of a region with children.
ClickExpandIcon(k) ==
    /\ regionSelect.isOpen
    /\ Len(regionMemo.hierarchicalRegions[k].children) > 0
    /\ regionSelect' = [regionSelect EXCEPT !.expandedRegions = ToggleExpand(@, regionMemo.hierarchicalRegions[k].name)]
    /\ UNCHANGED onSelectCalled
    /\ UNCHANGED regionSelectFrame

\* The header of a region: expands a region with children, selects a region
\* without children that is a label, and otherwise does nothing.
ClickRegionHeader(k) ==
    /\ regionSelect.isOpen
    /\ IF Len(regionMemo.hierarchicalRegions[k].children) > 0
       THEN /\ regionSelect' = [regionSelect EXCEPT !.expandedRegions = ToggleExpand(@, regionMemo.hierarchicalRegions[k].name)]
            /\ UNCHANGED onSelectCalled
            /\ UNCHANGED regionSelectFrame
       ELSE IF regionMemo.hierarchicalRegions[k].name \in Range(availableSegments)
            THEN HandleSelect(regionMemo.hierarchicalRegions[k].name)
            ELSE UNCHANGED <<regionSelect, onSelectCalled>> /\ UNCHANGED regionSelectFrame

\* The Select button of a region, rendered for a region that is a label.
ClickRegionSelect(k) ==
    /\ regionSelect.isOpen
    /\ regionMemo.hierarchicalRegions[k].name \in Range(availableSegments)
    /\ HandleSelect(regionMemo.hierarchicalRegions[k].name)

\* A child's row or its Select button, rendered under an expanded region.
ClickRegionChild(k, c) ==
    /\ regionSelect.isOpen
    /\ c \in 1..Len(regionMemo.hierarchicalRegions[k].children)
    /\ regionMemo.hierarchicalRegions[k].name \in regionSelect.expandedRegions
    /\ HandleSelect(regionMemo.hierarchicalRegions[k].children[c].name)

\* A row of "Other Regions" or its Select button.
ClickUnmatchedRegion(j) ==
    /\ regionSelect.isOpen
    /\ HandleSelect(regionMemo.unmatchedRegions[j])

\* updateFilters({ geographies })
UpdateGeographies(geographies) ==
    /\ filters' = [filters EXCEPT !.geographies = geographies]
    /\ UNCHANGED geoSelect
    /\ UNCHANGED geographySelectFrame

\* The dropdown button of GeographyMultiSelect, which renders nothing
\* without data.
ClickGeographyButton ==
    /\ data # Null
    /\ geoSelect' = [geoSelect EXCEPT !.isOpen = ~geoSelect.isOpen]
    /\ UNCHANGED filters
    /\ UNCHANGED geographySelectFrame

\* The search box changes; the effect that follows expands every region
\* when the term is not empty.
SetSearchTerm(term) ==
    /\ geoSelect.isOpen
    /\ term # geoSelect.searchTerm
    /\ geoSelect' = [geoSelect EXCEPT !.searchTerm = term, !.expandedRegions = IF term # "" THEN {geographyMemo.hierarchicalGeographies[k].name : k \in 1..Len(geographyMemo.hierarchicalGeographies)} ELSE @]
    /\ UNCHANGED filters
    /\ UNCHANGED geographySelectFrame

\* The header of a listed region with children.
ClickGeographyHeader(region) ==
    /\ geoSelect.isOpen
    /\ Len(region.children) > 0
    /\ geoSelect' = [geoSelect EXCEPT !.expandedRegions = ToggleExpand(@, region.name)]
    /\ UNCHANGED filters
    /\ UNCHANGED geographySelectFrame

\* The checkbox of a listed region: handleSelectRegion(region).
HandleSelectRegion(region) ==
    /\ geoSelect.isOpen
    /\ UpdateGeographies(ToggleRegion(SetOf(filters.geographies), RegionGeos(region, geographyMemo.allGeographies)))

\* The checkbox of a child listed under an expanded region.
HandleToggleChild(region, c) ==
    /\ geoSelect.isOpen
    /\ c \in 1..Len(region.children)
    /\ region.name \in geoSelect.expandedRegions
    /\ UpdateGeographies(ToggleGeography(filters.geographies, region.children[c].name))

\* The checkbox of a listed row of "Other Geographies".
HandleToggleUnmatched(geography) ==
    /\ geoSelect.isOpen
    /\ UpdateGeographies(ToggleGeography(filters.geographies, geography))

\* Select All.
HandleSelectAll ==
    /\ geoSelect.isOpen
    /\ data # Null
    /\ UpdateGeographies(data[1].all_geographies)

\* Clear All.
HandleClearAll ==
    /\ geoSelect.isOpen
    /\ UpdateGeographies(<<>>)

NextSelect ==
    \/ \E target \in MouseDownTargets : MouseDown(target)
    \/ ClickRegionButton
    \/ \E k \in RegionIndices : ClickExpandIcon(k)
    \/ \E k \in RegionIndices : ClickRegionHeader(k)
    \/ \E k \in RegionIndices : ClickRegionSelect(k)
    \/ \E k \in RegionIndices : \E c \in 1..MaxLabels : ClickRegionChild(k, c)
    \/ \E j \in 1..Len(regionMemo.unmatchedRegions) : ClickUnmatchedRegion(j)
    \/ ClickGeographyButton
    \/ \E term \in SearchTerms : SetSearchTerm(term)
    \/ \E region \in Range(FilteredHierarchy(geographyMemo, geoSelect.searchTerm).hierarchy) : ClickGeographyHeader(region)
    \/ \E region \in Range(FilteredHierarchy(geographyMemo, geoSelect.searchTerm).hierarchy) : HandleSelectRegion(region)
    \/ \E region \in Range(FilteredHierarchy(geographyMemo, geoSelect.searchTerm).hierarchy) : \E c \in 1..MaxLabels : HandleToggleChild(region, c)
    \/ \E geography \in Range(FilteredHierarchy(geographyMemo, geoSelect.searchTerm).unmatched) : HandleToggleUnmatched(geography)
    \/ HandleSelectAll
    \/ HandleClearAll

SpecSelect == InitSelect /\ [][NextSelect]_vars

\* A placeholder is listed: a region of the tree whose name is no label.
PlaceholderListed == \E k \in RegionIndices : regionMemo.hierarchicalRegions[k].name \notin Range(availableSegments)

\* C20: over any sequence of user actions, HierarchicalRegionSelect has called
\* onSelect only with a label of availableSegments, and no step of
\* GeographyMultiSelect (its region toggle included) adds to the selection a
\* label that is not in all_geographies; so a placeholder region, whose name
\* is no label, is never selected.
C20_PlaceholderNeverSelectable == [](onSelectCalled # Null => onSelectCalled[1] \in Range(availableSegments)) /\ [][Range(filters'.geographies) \ Range(filters.geographies) \subseteq Range(data[1].all_geographies)]_vars

\* Under the placeholder "North America" the child "US" has been selected in
\* HierarchicalRegionSelect, and the region's checkbox in GeographyMultiSelect
\* has left the children selected in the template's order, not the data's.
C20_Witness == PlaceholderListed /\ availableSegments = <<"Canada", "US">> /\ onSelectCalled = Some("US") /\ filters.geographies = <<"US", "Canada">>


(***************************************************************************)
(* The two copies of the resolver side by side: both selectors are handed  *)
(* the same label list, GeographyMultiSelect through the store's data and  *)
(* HierarchicalRegionSelect through its availableSegments prop, and each   *)
(* selector's render computes its memo.                                    *)
(***************************************************************************)
InitBothResolvers ==
    /\ \E l \in LabelLists :
          /\ data = Some(Dataset(l, <<>>, <<>>))
          /\ availableSegments = l
    /\ geographyMemo = EmptyGeographyMemo
    /\ regionMemo = EmptyRegionMemo
    /\ rendered = {}
    /\ filters = DefaultFilters
    /\ chartData = EmptyChart
    /\ lastLog = Null
    /\ prepared = <<>>
    /\ extracted = Null
    /\ chartLocals = Null
    /\ matrixKeyPolicy = "raw"
    /\ InitTable
    /\ InitSelectors

SpecBothResolvers == InitBothResolvers /\ [][NextResolver]_vars

\* C23: for every label list, the empty one included, the two copies of the
\* resolver give the same tree (the same regions with the same names and the
\* same children, in the same order) and the same unmatched bucket.
C23_ResolversAgree ==
    (GeographyRendered /\ RegionRendered) =>
       /\ geographyMemo.hierarchicalGeographies = regionMemo.hierarchicalRegions
       /\ geographyMemo.unmatchedGeographies = regionMemo.unmatchedRegions

\* Both copies have resolved a list with two children of one region, given
\* against the template's order.
C23_Witness ==
    /\ GeographyRendered /\ RegionRendered
    /\ availableSegments = <<"Canada", "US">>
    /\ regionMemo.hierarchicalRegions = <<[name |-> "North America", children |-> <<[name |-> "US"], [name |-> "Canada"]>>, existsInData |-> TRUE]>>
    /\ geographyMemo.hierarchicalGeographies = regionMemo.hierarchicalRegions
    /\ geographyMemo.unmatchedGeographies = <<>>

\* Both copies have resolved the empty list: the one runs over it, the other
\* returns early.
C23_EmptyListResolved == GeographyRendered /\ RegionRendered /\ availableSegments = <<>> /\ geographyMemo.hierarchicalGeographies = <<>>


\* The regions the current render of GeographyMultiSelect lists.
ListedRegions == Range(FilteredHierarchy(geographyMemo, geoSelect.searchTerm).hierarchy)

\* A region's data-present labels: its own name and its listed children, as
\* far as all_geographies holds them.
DataPresentLabels(region) == ({region.name} \cup Range(ChildNames(region))) \cap Range(data[1].all_geographies)

\* What C24 says of a click on the checkbox of region.
RegionToggled(region, present, before, after) ==
    /\ ~(present \subseteq before) => /\ present \subseteq after
                                      /\ IsRegionFullySelected(region, data[1].all_geographies, filters'.geographies)
    /\ present \subseteq before => present \cap after = {}
    /\ after \ present = before \ present

\* C24: handleSelectRegion on a region whose data-present labels are not all
\* selected adds all of them, and the region is then fully selected; on a
\* region whose data-present labels are all selected it removes all of them;
\* either way a label outside the region is selected after the click exactly
\* if it was before.
C24_RegionToggleAllOrNone == [][\A region \in ListedRegions : HandleSelectRegion(region) => RegionToggled(region, DataPresentLabels(region), Range(filters.geographies), Range(filters'.geographies))]_vars

\* A region that is itself a label is fully selected, with a child, while
\* the search lists it.
C24_Witness ==
    /\ geoSelect.isOpen
    /\ geoSelect.searchTerm = "North"
    /\ data = Some(Dataset(<<"Canada", " North  America">>, <<>>, <<>>))
    /\ filters.geographies = <<" North  America", "Canada">>
    /\ \E region \in ListedRegions : IsRegionFullySelected(region, data[1].all_geographies, filters.geographies)


\* C25: when all_geographies holds no label twice, then after any sequence of
\* handleToggle, handleSelectRegion (with or without a search term),
\* handleSelectAll and handleClearAll from the empty selection,
\* filters.geographies holds no label twice and only labels of
\* all_geographies.
C25_SelectionDuplicateFree ==
    NoDuplicates(data[1].all_geographies) =>
       /\ NoDuplicates(filters.geographies)
       /\ Range(filters.geographies) \subseteq Range(data[1].all_geographies)

\* Over a duplicate-free list, searched, a child was selected by itself
\* before its region was: the selection is in the order of the clicks.
C25_Witness ==
    /\ data = Some(Dataset(<<"US", "Canada">>, <<>>, <<>>))
    /\ geoSelect.isOpen
    /\ geoSelect.searchTerm = "North"
    /\ filters.geographies = <<"Canada", "US">>


\* C26: for any number of runs of the load effect and any interleaving of
\* their completions, data and error are never both non-null, and once a load
\* has set data the table does not show the error view.
C26_DataAndErrorExclusive ==
    /\ ~(table.data # Null /\ table.error # Null)
    /\ table.data # Null => TableView(table) # "error"

\* What the code keeps instead: error, once set, stays set (no run clears
\* it), and data, once set, stays set.
ErrorAndDataAreKept == [][(table.error # Null => table'.error # Null) /\ (table.data # Null => table'.data # Null)]_vars

\* One run has loaded rows and another has failed: the table holds the rows
\* and shows the error view.
LoadedAndFailed ==
    /\ \E i, j \in 1..MaxLoads : loads[i] = "loaded" /\ loads[j] = "failed"
    /\ table.data # Null /\ Len(table.data[1].rows) = 1
    /\ TableView(table) = "error"


\* A run of loadData is in flight between its start and its completion.
InFlight(i) == loads[i] \in {"fetching", "parsing"}

Completed(i) == loads[i] \in {"loaded", "failed", "unparsed"}

AllStartedCompleted == (\E i \in 1..MaxLoads : Completed(i)) /\ (\A i \in 1..MaxLoads : ~InFlight(i))

\* C27: for any number of runs of the load effect, loading is true whenever
\* a run is in flight, and it is false from the moment every started run has
\* completed for as long as no run is in flight.
C27_LoadingIffInFlight ==
    /\ (\E i \in 1..MaxLoads : InFlight(i)) => table.loading
    /\ AllStartedCompleted => ~table.loading

\* The half the code keeps: loading is false when every started run has
\* completed.
LoadingFalseWhenAllCompleted == AllStartedCompleted => ~table.loading

\* One run has completed while another is still in flight: loading is false.
CompletedWhileInFlight ==
    /\ \E i, j \in 1..MaxLoads : Completed(i) /\ InFlight(j)
    /\ ~table.loading


(***************************************************************************)
(* CrossCustomerTable: the controls of the loaded table (search, region    *)
(* and score filters, sort, and the View/Hide button of the expandable     *)
(* variant) and the rows it displays.  A cell is a number or a string; a   *)
(* row is a function from its headers to its cells.                        *)
(***************************************************************************)
MaxRows == 3

ScoreHeader == "Trivi Opportunity Score (High / Medium / Emerging)"

CustomerRow(sno, company, region, score) == ("S.No." :> Num(sno)) @@ ("Company Name" :> Str(company)) @@ ("Region" :> Str(region)) @@ (ScoreHeader :> Str(score))

\* Rows as the route reads them from the sheet ('xx' marks an empty cell).
\* 'Aarhus' comes before the other names in most locales and behind them in
\* Danish; 'xx' comes behind 'Medium' in most locales and before it where x
\* follows h in the alphabet.  The fourth row has the second row's cells, so
\* that rows tie in every column but the first.
SampleRows == <<CustomerRow(1, "Cresco", "Europe", "High"), CustomerRow(2, "Aarhus", "Asia", "Medium"), CustomerRow(3, "Birko", "Europe", "xx"), CustomerRow(4, "Aarhus", "Asia", "Medium"), CustomerRow(5, "Dolce", "Africa", "Emerging")>>

TableHeaders == <<"S.No.", "Company Name", "Region", ScoreHeader>>

\* What the route answers for sheets of up to MaxRows rows.
TableResults == {[headers |-> TableHeaders, rows |-> Prefix(SampleRows, n), totalRows |-> n] : n \in 0..MaxRows}

\* The columns whose header can be clicked: data.headers, and in the
\* expandable variant keyColumns, which has columns the sheet may lack.
SortableColumns == Range(TableHeaders) \cup {"Country"}

SortableColumnList == TableHeaders \o <<"Country">>

\* What the user types in the table's search box.
TableSearchTerms == {"", "eur", "1"}

\* String(val): the decimal form of an integer, and a string as it is.
RECURSIVE StringOf(_)
StringOf(cell) == IF "number" \in DOMAIN cell THEN (IF cell.number < 0 THEN "-" \o StringOf([number |-> 0 - cell.number]) ELSE IF cell.number < 10 THEN CharAt(DecimalDigits, cell.number + 1) ELSE StringOf([number |-> cell.number \div 10]) \o CharAt(DecimalDigits, (cell.number % 10) + 1)) ELSE cell.string

\* row[column]
CellOf(row, column) == IF column \in DOMAIN row THEN row[column] ELSE Undefined

\* row[sortColumn] ?? ''
OrEmpty(cell) == IF cell = Undefined THEN Str("") ELSE cell

\* localeCompare() is called without a locale, so the order of two strings
\* is that of the collator of the runtime's default locale, whichever that
\* is.  For the locales named here the collator's rules over the printable
\* ASCII characters are written out below (Collation .. CaseCompare), and
\* those definitions are read under these locales only.  Under every other
\* locale the collator is not written out: locale.order holds the strings of
\* the sheet in the order that locale's collator puts them, and every order
\* is drawn (CollatorOrders).
TailoredLocales == {"en-US", "da-DK", "cs-CZ", "et-EE", "lt-LT"}

\* The strings of a column that can reach localeCompare: the comparator
\* subtracts two numbers and compares every other pair of cells as strings,
\* so these are the strings of all the cells of a column that has a cell
\* that is no number.
ComparedStrings(rows, column) ==
    IF \A i \in 1..Len(rows) : "number" \in DOMAIN OrEmpty(CellOf(rows[i], column))
    THEN {}
    ELSE {StringOf(OrEmpty(CellOf(rows[i], column))) : i \in 1..Len(rows)}

\* The strict orders of a set of strings.  A collator tells any two of the
\* sheet's strings apart: they are of ASCII letters and differ in a letter.
StrictOrders(strings) == {o \in [1..Cardinality(strings) -> strings] : Range(o) = strings}

\* The orders a collator can put the strings of the sheet in, from the
\* column at place k on: each column's strings in every order.  Strings of
\* different columns are never compared (the sheets drawn have no string in
\* two columns), so that their order among each other is not varied.
RECURSIVE CollatorOrdersFrom(_, _, _)
CollatorOrdersFrom(rows, columns, k) ==
    IF k > Len(columns) THEN {<<>>}
    ELSE {o \o rest : o \in StrictOrders(ComparedStrings(rows, columns[k])), rest \in CollatorOrdersFrom(rows, columns, k + 1)}

\* The place of a string of the sheet in the order of the default locale's
\* collator.
PlaceInOrder(s) == CHOOSE i \in 1..Len(locale.order) : locale.order[i] = s

\* localeCompare under a locale whose rules are not written out.
OrderCompare(a, b) == IF a = b THEN 0 ELSE IF PlaceInOrder(a) < PlaceInOrder(b) THEN -1 ELSE 1

\* The order of localeCompare over the printable ASCII characters: the
\* space, punctuation and symbols, the digits, then the letters, a letter's
\* two cases at one place.  Estonian has z between s and t.  (The grave
\* accent, between the percent sign and the circumflex, cannot be written in
\* a string here.)
Collation == " _-,;:!?.'\"()[]{}@*/\\&#%^+<=>|~$0123456789" \o (IF locale.tag = "et-EE" THEN "abcdefghijklmnopqrsztuvwxy" ELSE "abcdefghijklmnopqrstuvwxyz")

\* The place of a character in that order, whatever its case.  Lithuanian
\* has y at the place of i.
Rank(c) == CHOOSE i \in 1..Len(Collation) : CharAt(Collation, i) = (IF locale.tag = "lt-LT" /\ ToLowerCase(c) = "y" THEN "i" ELSE ToLowerCase(c))

\* The pairs of letters that sort as one letter: Danish aa (as a-ring, behind
\* z) and Czech ch (behind h).
IsContraction(pair) ==
    \/ locale.tag = "da-DK" /\ pair \in {"aa", "Aa", "AA"}
    \/ locale.tag = "cs-CZ" /\ pair \in {"ch", "cH", "Ch", "CH"}

\* The primary weights of a string from its i-th character on: twice the
\* rank of a character, and for a pair that sorts as one letter the weight
\* next above that of z or of h.
RECURSIVE PrimaryWeights(_, _)
PrimaryWeights(s, i) ==
    IF i > Len(s) THEN <<>>
    ELSE IF i < Len(s) /\ IsContraction(SubSeq(s, i, i + 1))
         THEN <<2 * Rank(IF locale.tag = "da-DK" THEN "z" ELSE "h") + 1>> \o PrimaryWeights(s, i + 2)
         ELSE <<2 * Rank(CharAt(s, i))>> \o PrimaryWeights(s, i + 1)

\* The secondary weights: Lithuanian y differs from i at this level.
SecondaryWeights(s) == [i \in 1..Len(s) |-> IF locale.tag = "lt-LT" /\ ToLowerCase(CharAt(s, i)) = "y" THEN 1 ELSE 0]

\* Two sequences of weights compared: the first place at which they differ
\* decides, and a proper prefix comes first.
WeightsCompare(u, v) ==
    IF \E i \in 1..Len(u) : i > Len(v) \/ u[i] # v[i]
    THEN IF \E i \in 1..Len(u) :
               /\ i <= Len(v) /\ u[i] < v[i]
               /\ \A j \in 1..(i - 1) : u[j] = v[j]
         THEN -1 ELSE 1
    ELSE IF Len(u) < Len(v) THEN -1 ELSE 0

\* Two strings that differ in case only: at the first place at which they
\* differ the lower case comes first, and in Danish the upper case.
CaseCompare(a, b) ==
    IF a = b THEN 0
    ELSE IF \E i \in 1..Len(a) :
               /\ CharAt(a, i) # CharAt(b, i)
               /\ SubSeq(a, 1, i - 1) = SubSeq(b, 1, i - 1)
               /\ (CharAt(a, i) = ToLowerCase(CharAt(a, i))) = (locale.tag # "da-DK")
         THEN -1 ELSE 1

\* The first of the three levels that tells the strings apart.
FirstDifference(primary, secondary, tertiary) ==
    IF primary # 0 THEN primary ELSE IF secondary # 0 THEN secondary ELSE tertiary

\* localeCompare under a locale whose rules are written out.
TailoredCompare(a, b) ==
    FirstDifference(WeightsCompare(PrimaryWeights(a, 1), PrimaryWeights(b, 1)),
                    WeightsCompare(SecondaryWeights(a), SecondaryWeights(b)),
                    CaseCompare(a, b))

\* String(aVal).localeCompare(String(bVal)): -1, 0 or 1, under the default
\* locale of the runtime.
LocaleCompare(a, b) ==
    IF locale.tag \in TailoredLocales THEN TailoredCompare(a, b) ELSE OrderCompare(a, b)

\* The comparator of the sort, for two cells.
CompareCells(aVal, bVal, direction) ==
    IF "number" \in DOMAIN aVal /\ "number" \in DOMAIN bVal
    THEN IF direction = "asc" THEN aVal.number - bVal.number ELSE bVal.number - aVal.number
    ELSE IF direction = "asc" THEN LocaleCompare(StringOf(aVal), StringOf(bVal))
         ELSE 0 - LocaleCompare(StringOf(aVal), StringOf(bVal))

CompareRows(a, b, column, direction) == CompareCells(OrEmpty(CellOf(a, column)), OrEmpty(CellOf(b, column)), direction)

\* The array with the elements of its first n places in reverse order.
ReverseRange(array, n) == [i \in 1..Len(array) |-> IF i <= n THEN array[n + 1 - i] ELSE array[i]]

\* The last place of the run that starts the array, idx being the next place
\* to look at: a descending run goes on while an element compares below the
\* one before it, an ascending run while it does not.
RECURSIVE RunEnd(_, _, _, _, _)
RunEnd(array, idx, isDescending, column, direction) ==
    IF idx > Len(array) THEN idx - 1
    ELSE IF isDescending = (CompareRows(array[idx], array[idx - 1], column, direction) < 0)
         THEN RunEnd(array, idx + 1, isDescending, column, direction)
         ELSE idx - 1

\* The array with its first run made ascending, and the run's length.
MadeRun(array, isDescending, runLength) ==
    [array |-> IF isDescending THEN ReverseRange(array, runLength) ELSE array, runLength |-> runLength]

\* The run that starts an array of two elements or more.
CountAndMakeRun(array, column, direction) ==
    MadeRun(array, CompareRows(array[2], array[1], column, direction) < 0,
            RunEnd(array, 3, CompareRows(array[2], array[1], column, direction) < 0, column, direction))

\* Binary search among the places left .. right (counted from 0) for the
\* place the pivot goes to.
RECURSIVE BinaryPlace(_, _, _, _, _, _)
BinaryPlace(array, pivot, left, right, column, direction) ==
    IF left >= right THEN left
    ELSE IF CompareRows(pivot, array[left + ((right - left) \div 2) + 1], column, direction) < 0
         THEN BinaryPlace(array, pivot, left, left + ((right - left) \div 2), column, direction)
         ELSE BinaryPlace(array, pivot, left + ((right - left) \div 2) + 1, right, column, direction)

\* The array with the element at place start (from 0) moved to place.
MovedTo(array, start, place) ==
    SubSeq(array, 1, place) \o <<array[start + 1]>> \o SubSeq(array, place + 1, start) \o SubSeq(array, start + 2, Len(array))

\* A plausible slip: a row whose sort value is already among the sorted rows
\* is lost.
BinaryInsertDroppingTies(array, start, column, direction) ==
    IF \E i \in 1..start : CompareRows(array[start + 1], array[i], column, direction) = 0
    THEN SubSeq(array, 1, start) \o SubSeq(array, start + 2, Len(array))
    ELSE MovedTo(array, start, BinaryPlace(array, array[start + 1], 0, start, column, direction))

\* One round of the binary insertion sort: the element at place start goes
\* to its place among the sorted elements before it.
BinaryInsert(array, start, column, direction) ==
    MovedTo(array, start, BinaryPlace(array, array[start + 1], 0, start, column, direction))

\* The binary insertion sort from place start on.
RECURSIVE BinaryInsertionSort(_, _, _, _)
BinaryInsertionSort(array, start, column, direction) ==
    IF start >= Len(array) THEN array
    ELSE BinaryInsertionSort(BinaryInsert(array, start, column, direction), start + 1, column, direction)

\* The sort of an array under the run.
SortFrom(run, column, direction) == BinaryInsertionSort(run.array, run.runLength, column, direction)

\* [...filtered].sort(comparator), as V8 sorts an array of fewer than 64
\* elements: the run that starts the array is made ascending and the other
\* elements are inserted by binary search.  With a comparator that orders
\* the rows consistently this is the one stable sort; with one that does not
\* (a column of numbers and strings can compare in a cycle) the outcome is
\* the engine's, and this is that of V8.
ArraySort(rows, column, direction) ==
    IF Len(rows) < 2 THEN rows ELSE SortFrom(CountAndMakeRun(rows, column, direction), column, direction)

\* Object.values(row).some(val => String(val).toLowerCase().includes(searchLower))
MatchesSearch(row, searchLower) == \E h \in DOMAIN row : StringIncludes(ToLowerCase(StringOf(row[h])), searchLower)

\* The callback of data.rows.filter.
PassesTableFilters(row, controls) ==
    /\ controls.searchTerm # "" => MatchesSearch(row, ToLowerCase(controls.searchTerm))
    /\ controls.selectedRegion = "all" \/ CellOf(row, "Region") = Str(controls.selectedRegion)
    /\ controls.selectedOpportunityScore = "all" \/ CellOf(row, ScoreHeader) = Str(controls.selectedOpportunityScore)

FilteredRows(rows, controls) ==
    LET Passes(row) == PassesTableFilters(row, controls)
    IN  SelectSeq(rows, Passes)

\* The filteredAndSortedRows memo.
FilteredAndSortedRows(t, controls) ==
    IF t.data = Null THEN <<>>
    ELSE IF controls.sortColumn # Null
         THEN ArraySort(FilteredRows(t.data[1].rows, controls), controls.sortColumn[1], controls.sortDirection)
         ELSE FilteredRows(t.data[1].rows, controls)

\* The options of a filter's select, as the values the select reports: the
\* column's values that are truthy and not 'xx'.
FilterOptions(t, header) == IF t.data = Null THEN {} ELSE {StringOf(CellOf(row, header)) : row \in {r \in Range(t.data[1].rows) : CellOf(r, header) \notin {Undefined, Str(""), Num(0), Str("xx")}}}

\* A plausible slip: the direction is left as it was for a new column.
SortAfterKeepingDirection(controls, column) ==
    IF controls.sortColumn = Some(column)
    THEN [controls EXCEPT !.sortDirection = IF @ = "asc" THEN "desc" ELSE "asc"]
    ELSE [controls EXCEPT !.sortColumn = Some(column)]

\* handleSort
SortAfter(controls, column) ==
    IF controls.sortColumn = Some(column)
    THEN [controls EXCEPT !.sortDirection = IF @ = "asc" THEN "desc" ELSE "asc"]
    ELSE [controls EXCEPT !.sortColumn = Some(column), !.sortDirection = "asc"]

\* The default locales of the runtime: one whose rules are written out, or
\* any other, which is then known by the order it puts the strings of the
\* sheet's sortable columns in.
DefaultLocales(rows) ==
    {[tag |-> t, order |-> <<>>] : t \in TailoredLocales}
    \cup {[tag |-> "other", order |-> o] : o \in CollatorOrdersFrom(rows, SortableColumnList, 1)}

\* The table after one run of loadData has loaded a sheet.
InitTableLoaded ==
    /\ \E result \in TableResults :
          /\ table = [data |-> Some(result), loading |-> FALSE, error |-> Null]
          /\ competitiveIntelligenceData = Some([headers |-> result.headers, rows |-> result.rows])
    /\ loads = [i \in 1..MaxLoads |-> IF i = 1 THEN "loaded" ELSE "idle"]
    /\ tableControls = [searchTerm |-> "", sortColumn |-> Null, sortDirection |-> "asc", selectedRegion |-> "all", selectedOpportunityScore |-> "all", expandedRow |-> Null]
    /\ locale \in DefaultLocales(table.data[1].rows)
    /\ data = Null
    /\ filters = DefaultFilters
    /\ availableSegments = <<>>
    /\ geographyMemo = GeographyMemo(Null)
    /\ regionMemo = RegionMemo(<<>>)
    /\ rendered = {}
    /\ chartData = EmptyChart
    /\ lastLog = Null
    /\ chartLocals = Null
    /\ prepared = Null
    /\ extracted = Null
    /\ matrixKeyPolicy = "raw"
    /\ InitSelectors

\* What a control of the table leaves alone.
controlFrame == <<data, filters, geographyMemo, availableSegments, regionMemo, chartData, lastLog, prepared, extracted, rendered, chartLocals, matrixKeyPolicy, table, loads, competitiveIntelligenceData, locale, selectVars, normalizer, objects>>

\* A click on a column header.
HandleSort(column) ==
    /\ TableView(table) = "table"
    /\ tableControls' = SortAfter(tableControls, column)
    /\ UNCHANGED controlFrame

\* The search box changes, or its clear button is clicked.
SetTableSearchTerm(term) ==
    /\ TableView(table) = "table"
    /\ term # tableControls.searchTerm
    /\ tableControls' = [tableControls EXCEPT !.searchTerm = term]
    /\ UNCHANGED controlFrame

\* The region select changes.
SetSelectedRegion(region) ==
    /\ TableView(table) = "table"
    /\ region # tableControls.selectedRegion
    /\ tableControls' = [tableControls EXCEPT !.selectedRegion = region]
    /\ UNCHANGED controlFrame

\* The opportunity-score select changes.
SetSelectedOpportunityScore(score) ==
    /\ TableView(table) = "table"
    /\ score # tableControls.selectedOpportunityScore
    /\ tableControls' = [tableControls EXCEPT !.selectedOpportunityScore = score]
    /\ UNCHANGED controlFrame

\* The View/Hide button of the displayed row at index (from 0, as map
\* passes it).
ClickViewHide(index) ==
    /\ TableView(table) = "table"
    /\ tableControls' = [tableControls EXCEPT !.expandedRow = IF @ = Some(index) THEN Null ELSE Some(index)]
    /\ UNCHANGED controlFrame

NextTable ==
    \/ \E column \in SortableColumns : HandleSort(column)
    \/ \E term \in TableSearchTerms : SetTableSearchTerm(term)
    \/ \E region \in {"all"} \cup FilterOptions(table, "Region") : SetSelectedRegion(region)
    \/ \E score \in {"all"} \cup FilterOptions(table, ScoreHeader) : SetSelectedOpportunityScore(score)
    \/ \E index \in 0..(Len(FilteredAndSortedRows(table, tableControls)) - 1) : ClickViewHide(index)

SpecTable == InitTableLoaded /\ [][NextTable]_vars

\* The rows displayed, and the rows of the sheet that pass the three filters.
DisplayedRows == FilteredAndSortedRows(table, tableControls)

PassingRows == FilteredRows(table.data[1].rows, tableControls)

\* a and b hold the same rows, each as often.
SameRows(a, b) == Len(a) = Len(b) /\ \A row \in Range(a) \cup Range(b) : Cardinality({i \in 1..Len(a) : a[i] = row}) = Cardinality({i \in 1..Len(b) : b[i] = row})

\* What C28 says of a click on the header of column.
SortClicked(column) ==
    IF tableControls.sortColumn = Some(column)
    THEN /\ tableControls'.sortColumn = tableControls.sortColumn
         /\ tableControls'.sortDirection # tableControls.sortDirection
         /\ tableControls'.sortDirection \in {"asc", "desc"}
    ELSE /\ tableControls'.sortColumn = Some(column)
         /\ tableControls'.sortDirection = "asc"

\* C28: handleSort on the sort column flips the direction and leaves the
\* column; on another column it makes that the sort column, ascending.  And
\* the displayed list is a permutation of the rows that pass the search,
\* region and score filters.
C28_SortFlipsAndPermutes == [][\A column \in SortableColumns : HandleSort(column) => SortClicked(column)]_vars /\ [](table.data # Null => SameRows(DisplayedRows, PassingRows))

\* Three rows, two of them with the same region, are displayed sorted by
\* region, descending: the two keep their order.
C28_Witness ==
    /\ tableControls.sortColumn = Some("Region")
    /\ tableControls.sortDirection = "desc"
    /\ tableControls.searchTerm = ""
    /\ Len(DisplayedRows) = 3
    /\ DisplayedRows[1]["Company Name"] = Str("Cresco")
    /\ DisplayedRows[2]["Company Name"] = Str("Birko")
    /\ DisplayedRows[3]["Company Name"] = Str("Aarhus")

\* Under a locale whose alphabet has x next behind h, the three rows sorted
\* by opportunity score, ascending, are the first, the third and the second.
SortedWhereXFollowsH ==
    /\ locale.tag \notin TailoredLocales
    /\ tableControls.sortColumn = Some(ScoreHeader)
    /\ tableControls.sortDirection = "asc"
    /\ Len(DisplayedRows) = 3
    /\ DisplayedRows[1]["S.No."] = Num(1)
    /\ DisplayedRows[2]["S.No."] = Num(3)
    /\ DisplayedRows[3]["S.No."] = Num(2)

\* The place in the displayed list that expandedRow (an index from 0) refers
\* to; 0 when no row is expanded.
ExpandedIndex == IF tableControls.expandedRow = Null THEN 0 ELSE tableControls.expandedRow[1] + 1

\* The expanded row is among the rows displayed.
ExpandedRowDisplayed == tableControls.expandedRow # Null => ExpandedIndex \in 1..Len(DisplayedRows)

\* A step that is no click on View/Hide leaves the expanded row the customer
\* row it was.
ExpandedRowKept ==
    (tableControls.expandedRow # Null /\ tableControls'.expandedRow = tableControls.expandedRow /\ ExpandedIndex \in 1..Len(DisplayedRows))
       => (ExpandedIndex \in 1..Len(FilteredAndSortedRows(table', tableControls')) /\ FilteredAndSortedRows(table', tableControls')[ExpandedIndex] = DisplayedRows[ExpandedIndex])

\* C29: after any sequence of View/Hide clicks and of changes of the search,
\* the region filter, the score filter and the sort, at most one row is
\* expanded, and the expanded row is the customer row the user expanded and is
\* among the rows displayed.
C29_ExpandedRowIsTheOneExpanded == [](ExpandedRowDisplayed) /\ [][ExpandedRowKept]_vars

\* What the code keeps: expandedRow is one index or null, and only a click on
\* View/Hide changes it.
ExpandedIndexOnlyClicked == [][tableControls'.expandedRow # tableControls.expandedRow => \E index \in 0..(Len(DisplayedRows) - 1) : ClickViewHide(index)]_vars

\* The third of three rows was expanded and the search has since left two:
\* the detail row of no customer is asked for.
ExpandedBeyondDisplayed ==
    /\ tableControls.expandedRow = Some(2)
    /\ tableControls.searchTerm = "eur"
    /\ Len(DisplayedRows) = 2


(***************************************************************************)
(* normalizeGeoName by itself: a name is drawn, the function is applied to *)
(* it, and then to its own result.                                         *)
(***************************************************************************)
MaxChars == 3

\* The characters of the names drawn: a letter of either case, the two
\* kinds of whitespace of a label, the period.
NameCharacters == {"a", "B", " ", "\t", "."}

\* The names of up to n characters.
RECURSIVE NamesUpTo(_)
NamesUpTo(n) == IF n = 0 THEN {""} ELSE NamesUpTo(n - 1) \cup {s \o c : s \in NamesUpTo(n - 1), c \in NameCharacters}

InitNormalize ==
    /\ normalizer \in {[name |-> s, results |-> <<>>] : s \in NamesUpTo(MaxChars)}
    /\ data = Null
    /\ filters = DefaultFilters
    /\ availableSegments = <<>>
    /\ geographyMemo = GeographyMemo(Null)
    /\ regionMemo = RegionMemo(<<>>)
    /\ rendered = {}
    /\ chartData = EmptyChart
    /\ lastLog = Null
    /\ chartLocals = Null
    /\ prepared = Null
    /\ extracted = Null
    /\ matrixKeyPolicy = "raw"
    /\ InitTable
    /\ geoSelect = [isOpen |-> FALSE, searchTerm |-> "", expandedRegions |-> {}]
    /\ regionSelect = [isOpen |-> FALSE, expandedRegions |-> {}, selectedRegion |-> ""]
    /\ onSelectCalled = Null
    /\ objects = FirstObjects

normalizerFrame == <<data, filters, geographyMemo, availableSegments, regionMemo, chartData, lastLog, prepared, extracted, rendered, chartLocals, matrixKeyPolicy, tableVars, selectVars, objects>>

\* normalizeGeoName(name)
NormalizeName ==
    /\ Len(normalizer.results) = 0
    /\ normalizer' = [normalizer EXCEPT !.results = <<NormalizeGeoName(normalizer.name)>>]
    /\ UNCHANGED normalizerFrame

\* normalizeGeoName(normalizeGeoName(name))
NormalizeResult ==
    /\ Len(normalizer.results) = 1
    /\ normalizer' = [normalizer EXCEPT !.results = Append(@, NormalizeGeoName(@[1]))]
    /\ UNCHANGED normalizerFrame

NextNormalize == NormalizeName \/ NormalizeResult

SpecNormalize == InitNormalize /\ [][NextNormalize]_vars

HasPeriod(s) == \E i \in 1..Len(s) : CharAt(s, i) = "."

\* Two spaces in a row.
HasSpaceRun(s) == \E i \in 1..(Len(s) - 1) : CharAt(s, i) = " " /\ CharAt(s, i + 1) = " "

StartsOrEndsWithSpace(s) == Len(s) > 0 /\ (CharAt(s, 1) = " " \/ CharAt(s, Len(s)) = " ")

\* C30: normalizeGeoName(normalizeGeoName(s)) is normalizeGeoName(s) for
\* every label s, and normalizeGeoName(s) has no space at either end, no
\* period and no two spaces in a row.
C30_NormalizeIdempotent ==
    /\ Len(normalizer.results) >= 1 => /\ ~StartsOrEndsWithSpace(normalizer.results[1])
                                       /\ ~HasPeriod(normalizer.results[1])
                                       /\ ~HasSpaceRun(normalizer.results[1])
    /\ Len(normalizer.results) = 2 => normalizer.results[2] = normalizer.results[1]

\* What the code keeps: the result has no period, no upper-case letter, no
\* whitespace but single spaces; and a second application gives a form that
\* is free of spaces at its ends.
NormalFormWithoutPeriodsAndRuns ==
    /\ Len(normalizer.results) >= 1 => /\ ~HasPeriod(normalizer.results[1])
                                       /\ ~HasSpaceRun(normalizer.results[1])
                                       /\ \A i \in 1..Len(normalizer.results[1]) : CharAt(normalizer.results[1], i) \notin {"B", "\t"}
    /\ Len(normalizer.results) = 2 => ~StartsOrEndsWithSpace(normalizer.results[2])

\* A name with a period before a space: the period is removed after the
\* trim, and the space it shielded is left at the end.
PeriodShieldsSpace == normalizer = [name |-> "a .", results |-> <<"a ", "a">>]

====
